---------------------------- MODULE Spec2Model ----------------------------
(***************************************************************************)
(* A model of the Link Tracer of nssa-netlens                              *)
(* (backend/src/pcap_analyzer/link_tracer.py).                             *)
(*                                                                         *)
(* SpecExtract follows LinkTracer._extract_sessions row by row: the        *)
(* dissector delivers one row per step, the loop body updates the session  *)
(* table, and the loop ends when the rows are exhausted, when the stream   *)
(* fails, or when the loop body raises.                                    *)
(*                                                                         *)
(* Text fields of a row are sequences of character codes: 0..9 are the     *)
(* decimal digits, any other code is a character that is not a digit.      *)
(* Times are counted in milliseconds.                                      *)
(***************************************************************************)
EXTENDS Integers, Sequences, FiniteSets, TLC

VARIABLES
    sessions,       \* the sessions extracted so far (_extract_sessions), in insertion order;
                    \* in a trace, the local sessions / all_sessions
    xstatus,        \* position of _extract_sessions: "reading" or "returned"
    xcause,         \* why the row loop ended: "", "exhausted", "stream_failure", "row_error"
    nrows,          \* rows the dissector has delivered so far
    nstream,        \* rows delivered so far whose tcp.stream is not empty
    delivered,      \* the rows delivered so far, in order (history; kept by the
                    \* specifications whose properties read it)
    chain_counter,  \* LinkTracer.chain_counter
    tstatus,        \* position of the caller of a trace: "idle" or "returned"
    mode,           \* the trace that returned: "single", "multi", "" when idle
    counter_at_call,\* chain_counter when the trace was entered
    all_matches,    \* trace_*: the local all_matches when the trace returned
    best_matches,   \* trace_*: list(best_matches.values())
    chains,         \* trace_*: the list _build_chains returned
    result,         \* the dict the trace returned
    gen,            \* stream_fields generator: "none", "created", "suspended", "closed"
    child,          \* the tshark child: "none", "running", "exited", "killed", "reaped"
    proc_calls,     \* the calls the finally clause has made on proc, in order
    consumer,       \* the function iterating: "", "guarded_loop", "bare_loop", "pager"
    control,        \* who runs: "caller" or "consumer"
    ref,            \* what holds the generator: "none", "stack" (for loop), "local"
    pending,        \* rows the child's output still holds
    taken,          \* rows the consumer has received
    want,           \* rows the pager asks for (skip + page_size)
    outcome,        \* how the consumer ended: "", "returned", "raised"
    afunc,          \* the aggregator running: "", "analyze_tcp_sessions",
                    \* "analyze_security", "_extract_hop_packets"
    astatus,        \* its position: "idle", "reading", "returned", "raised"
    acc,            \* its locals while reading, its result once returned
    arows           \* rows it has been given

extract_vars == <<sessions, xstatus, xcause, nrows, nstream, delivered>>

trace_vars == <<chain_counter, tstatus, mode, counter_at_call,
                all_matches, best_matches, chains, result>>

stream_vars == <<gen, child, proc_calls, consumer, control, ref, pending, taken,
                 want, outcome>>

agg_vars == <<afunc, astatus, acc, arows>>

vars == <<extract_vars, trace_vars, stream_vars, agg_vars>>

\* Longest row stream of SpecExtract.
MaxRows == 4

---------------------------------------------------------------------------
(* Text and parsing *)

IsDigit(c) == c \in 0..9

RECURSIVE DecimalValue(_)
DecimalValue(t) ==
    IF t = <<>> THEN 0
    ELSE 10 * DecimalValue(SubSeq(t, 1, Len(t) - 1)) + t[Len(t)]

\* int(text) and float(text) raise ValueError on the empty string and on any
\* text with a character that is not a digit.
ParseOk(t) == t # <<>> /\ \A i \in 1..Len(t) : IsDigit(t[i])

ParseInt(t) == DecimalValue(t)

ParseFloat(t) == DecimalValue(t)

---------------------------------------------------------------------------
(* Sequences *)

RECURSIVE SumOver(_, _)
SumOver(s, field) ==
    IF s = <<>> THEN 0 ELSE s[1][field] + SumOver(Tail(s), field)

\* Index of the session of stream sid in the table, 0 when there is none.
SessionIndex(ss, sid) ==
    IF \E i \in 1..Len(ss) : ss[i].session_id = sid
    THEN CHOOSE i \in 1..Len(ss) : ss[i].session_id = sid
    ELSE 0

---------------------------------------------------------------------------
(* LinkTracer._extract_sessions, first pass *)

\* Header names the tracer stores (link_tracer.py, correlation_headers).
CorrelationHeaders ==
    {"x-request-id", "x-correlation-id", "x-trace-id", "x-forwarded-for", "x-real-ip"}

NoHeaders == [h \in CorrelationHeaders |-> ""]

\* Fingerprint size (first N bytes of payload).
FINGERPRINT_SIZE == 64

\* "Minimum payload size" of a fingerprint.
MIN_PAYLOAD == 8

\* Frame sizes kept per session.
MAX_PACKET_SIZES == 20

\* SessionInfo(session_id, src_ip, src_port, dst_ip, dst_port, file_source=...),
\* every other field at its dataclass default.
SessionInfo(stream_id, src_ip, src_port, dst_ip, dst_port, file_source) ==
    [ session_id |-> stream_id,
      src_ip |-> src_ip, src_port |-> src_port,
      dst_ip |-> dst_ip, dst_port |-> dst_port,
      packet_count |-> 0, byte_count |-> 0,
      start_time |-> 0, end_time |-> 0,
      payload_fingerprint |-> <<>>,
      http_headers |-> NoHeaders,
      packet_sizes |-> <<>>,
      file_source |-> file_source,
      forward_start |-> 0, forward_end |-> 0,
      forward_packets |-> 0, forward_bytes |-> 0,
      backward_start |-> 0, backward_end |-> 0,
      backward_packets |-> 0, backward_bytes |-> 0 ]

\* bytes.fromhex(payload_hex.replace(":", "")): the payload text is a sequence of
\* two-character groups, each one a byte 0..255 or, above 255, a group that is not
\* hexadecimal (fromhex raises).
HexOk(payload) == \A i \in 1..Len(payload) : payload[i] \in 0..255

\* hashlib.md5(data).hexdigest()[:16]: the digest is identified with the data it
\* was computed from (no collisions).
Md5Hex16(data) == data

\* Lines 160-185: the timestamp block of the loop body. float() raises before
\* anything is assigned, and the except clause swallows it.
UpdateTimes(s, row, frame_len) ==
    IF ~ParseOk(row.time_epoch) THEN s
    ELSE
      LET ts == ParseFloat(row.time_epoch)
          start_time == IF s.start_time = 0 \/ ts < s.start_time THEN ts ELSE s.start_time
          end_time == IF ts > s.end_time THEN ts ELSE s.end_time
          is_forward == row.ip_src = s.src_ip
      IN IF is_forward
         THEN [s EXCEPT !.start_time = start_time, !.end_time = end_time,
                        !.forward_packets = @ + 1,
                        !.forward_bytes = @ + frame_len,
                        !.forward_start = IF @ = 0 \/ ts < @ THEN ts ELSE @,
                        !.forward_end = IF ts > @ THEN ts ELSE @]
         ELSE [s EXCEPT !.start_time = start_time, !.end_time = end_time,
                        !.backward_packets = @ + 1,
                        !.backward_bytes = @ + frame_len,
                        !.backward_start = IF @ = 0 \/ ts < @ THEN ts ELSE @,
                        !.backward_end = IF ts > @ THEN ts ELSE @]

\* The fingerprint step without its "still empty" test: every packet with enough
\* payload sets the fingerprint.
OverwriteFingerprint(s, row) ==
    IF row.payload = <<>> THEN s
    ELSE IF ~HexOk(row.payload) THEN s
    ELSE IF Len(row.payload) < MIN_PAYLOAD THEN s
    ELSE [s EXCEPT !.payload_fingerprint =
             Md5Hex16(SubSeq(row.payload, 1,
                 IF Len(row.payload) < FINGERPRINT_SIZE
                 THEN Len(row.payload) ELSE FINGERPRINT_SIZE))]

\* Lines 187-201: the fingerprint of the first packet with a payload of at least
\* MIN_PAYLOAD bytes; every exception is swallowed.
UpdateFingerprint(s, row) ==
    IF s.payload_fingerprint # <<>> THEN s
    ELSE IF row.payload = <<>> THEN s
    ELSE IF ~HexOk(row.payload) THEN s
    ELSE IF Len(row.payload) < MIN_PAYLOAD THEN s
    ELSE [s EXCEPT !.payload_fingerprint =
             Md5Hex16(SubSeq(row.payload, 1,
                 IF Len(row.payload) < FINGERPRINT_SIZE
                 THEN Len(row.payload) ELSE FINGERPRINT_SIZE))]

\* Lines 152-158: the counters that are updated before the timestamp block.
CountPacket(s) == [s EXCEPT !.packet_count = @ + 1]

CountBytes(s, frame_len) ==
    [s EXCEPT !.byte_count = @ + frame_len,
              !.packet_sizes = IF Len(@) < MAX_PACKET_SIZES
                               THEN Append(@, frame_len) ELSE @]

\* One iteration of the row loop (lines 138-201) on the table ss. The result is
\* the table after the iteration and whether the iteration raised out of the loop
\* body: int() of a port (line 146, 148) or of frame.len (line 155) is not inside
\* any inner try, so its ValueError leaves the loop.
ExtractRow(ss, row, file_tag) ==
    IF row.stream = <<>> THEN [sessions |-> ss, raised |-> FALSE]
    ELSE IF SessionIndex(ss, row.stream) = 0
            /\ (~ParseOk(row.srcport) \/ ~ParseOk(row.dstport))
    THEN [sessions |-> ss, raised |-> TRUE]
    ELSE
      LET ss1 == IF SessionIndex(ss, row.stream) = 0
                 THEN Append(ss, SessionInfo(row.stream, row.ip_src,
                                             ParseInt(row.srcport), row.ip_dst,
                                             ParseInt(row.dstport), file_tag))
                 ELSE ss
          i == SessionIndex(ss1, row.stream)
          counted == CountPacket(ss1[i])
      IN IF ~ParseOk(row.len)
         THEN [sessions |-> [ss1 EXCEPT ![i] = counted], raised |-> TRUE]
         ELSE
           LET frame_len == ParseInt(row.len)
               s == UpdateFingerprint(
                        UpdateTimes(CountBytes(counted, frame_len), row, frame_len),
                        row)
           IN [sessions |-> [ss1 EXCEPT ![i] = s], raised |-> FALSE]

---------------------------------------------------------------------------
(* LinkTracer._extract_sessions as a whole: both passes over one capture *)

\* The iterations of the row loop on rows[lo..hi], from the outcome before of the
\* iterations before them: nothing runs once an iteration has raised. The range
\* is walked as its two halves, one after the other.
RECURSIVE FirstPassRange(_, _, _, _, _)
FirstPassRange(before, rows, lo, hi, file_tag) ==
    IF lo > hi \/ before.raised THEN before
    ELSE IF lo = hi THEN ExtractRow(before.sessions, rows[lo], file_tag)
    ELSE LET mid == (lo + hi) \div 2
             half == FirstPassRange(before, rows, lo, mid, file_tag)
         IN IF half.raised THEN half
            ELSE FirstPassRange(half, rows, mid + 1, hi, file_tag)

\* The first pass over the rows of a capture, from the table ss: the loop ends
\* at the first iteration that raises.
FirstPass(ss, rows, file_tag) ==
    FirstPassRange([sessions |-> ss, raised |-> FALSE], rows, 1, Len(rows),
                   file_tag).sessions

\* A harvest that never overwrites: a header keeps the first value found for it.
KeepFirstHarvest(ss, row) ==
    IF row.stream = <<>> \/ SessionIndex(ss, row.stream) = 0 THEN ss
    ELSE
      LET i == SessionIndex(ss, row.stream)
          old == ss[i].http_headers
          with_xff == IF row.http_xff # "" /\ old["x-forwarded-for"] = ""
                      THEN [old EXCEPT !["x-forwarded-for"] = row.http_xff]
                      ELSE old
          with_lines == IF row.payload # <<>> /\ HexOk(row.payload)
                        THEN [h \in CorrelationHeaders |->
                                 IF row.header_lines[h] # "" /\ with_xff[h] = ""
                                 THEN row.header_lines[h] ELSE with_xff[h]]
                        ELSE with_xff
      IN [ss EXCEPT ![i].http_headers = with_lines]

\* One iteration of the loop of _extract_http_headers (lines 235-261). A row of
\* the "http" pass carries the http.x_forwarded_for field and, for each
\* correlation header, the value the regular expression finds in the decoded
\* payload (header_lines, "" when it finds none).
HarvestRow(ss, row) ==
    IF row.stream = <<>> \/ SessionIndex(ss, row.stream) = 0 THEN ss
    ELSE
      LET i == SessionIndex(ss, row.stream)
          with_xff == IF row.http_xff # ""
                      THEN [ss[i].http_headers EXCEPT !["x-forwarded-for"] = row.http_xff]
                      ELSE ss[i].http_headers
          with_lines == IF row.payload # <<>> /\ HexOk(row.payload)
                        THEN [h \in CorrelationHeaders |->
                                 IF row.header_lines[h] # ""
                                 THEN row.header_lines[h] ELSE with_xff[h]]
                        ELSE with_xff
      IN [ss EXCEPT ![i].http_headers = with_lines]

\* The iterations of the loop of _extract_http_headers on the rows lo..hi that
\* the display filter "http" lets through.
RECURSIVE SecondPassRange(_, _, _, _)
SecondPassRange(ss, rows, lo, hi) ==
    IF lo > hi THEN ss
    ELSE IF lo = hi
         THEN IF rows[lo].is_http THEN HarvestRow(ss, rows[lo]) ELSE ss
    ELSE LET mid == (lo + hi) \div 2
             half == SecondPassRange(ss, rows, lo, mid)
         IN IF Len(half) = 0 THEN half
            ELSE SecondPassRange(half, rows, mid + 1, hi)

SecondPass(ss, rows) == SecondPassRange(ss, rows, 1, Len(rows))

\* _extract_sessions(filepath, file_tag): list(sessions.values()), or [] when the
\* dissector is not available.
extract_sessions(capture, file_tag, available) ==
    IF ~available THEN <<>>
    ELSE SecondPass(FirstPass(<<>>, capture, file_tag), capture)

---------------------------------------------------------------------------
(* Sorting and pairs *)

\* The list of the values of a sequence that is given by a rule: each element is
\* evaluated once.
ListOf(seq) == seq \o <<>>

\* list.sort(key=...) / sorted(..., key=...): a stable sort of a sequence of
\* items [key, item] by the integer key. An item goes to the place after the
\* items with a smaller key and the earlier items with the same key.
SortKeyed(items) ==
    LET n == Len(items)
        place == ListOf([k \in 1..n |->
                    1 + Cardinality({j \in 1..n :
                            \/ items[j].key < items[k].key
                            \/ (items[j].key = items[k].key /\ j < k)})])
    IN ListOf([p \in 1..n |-> items[CHOOSE k \in 1..n : place[k] = p]])

\* items sorted by keys, keys[k] being the key of items[k].
SortByKey(items, keys) ==
    LET keyed == SortKeyed(ListOf([k \in 1..Len(items) |->
                               [key |-> keys[k], item |-> items[k]]]))
    IN ListOf([k \in 1..Len(items) |-> keyed[k].item])

\* The keys of a list of session indices for key=lambda s: s.start_time.
StartTimes(ss, indices) == [k \in 1..Len(indices) |-> ss[indices[k]].start_time]

\* for i in range(len(g) - 1): for j in range(i + 1, len(g)): the pairs
\* <<g[i], g[j]>> in the order the nested loops visit them.
RECURSIVE PairsFrom(_, _, _)
PairsFrom(g, i, j) ==
    IF i >= Len(g) THEN <<>>
    ELSE IF j > Len(g) THEN PairsFrom(g, i + 1, i + 2)
    ELSE <<(<<g[i], g[j]>>)>> \o PairsFrom(g, i, j + 1)

LoopPairs(g) == PairsFrom(g, 1, 2)

\* The concatenation of the sequences seqs[lo..hi], and of all of them.
RECURSIVE FlattenRange(_, _, _)
FlattenRange(seqs, lo, hi) ==
    IF lo > hi THEN <<>>
    ELSE IF lo = hi THEN ListOf(seqs[lo])
    ELSE FlattenRange(seqs, lo, (lo + hi) \div 2)
         \o FlattenRange(seqs, (lo + hi) \div 2 + 1, hi)

Flatten(seqs) == FlattenRange(seqs, 1, Len(seqs))

\* The distinct values of a sequence in the order of their first appearance (the
\* key order of a dict filled while iterating).
FirstAppearances(vals) ==
    LET firsts == SelectSeq([k \in 1..Len(vals) |-> k],
                            LAMBDA k : \A j \in 1..(k - 1) : vals[j] # vals[k])
    IN [k \in 1..Len(firsts) |-> vals[firsts[k]]]

Abs(x) == IF x < 0 THEN -x ELSE x

---------------------------------------------------------------------------
(* Confidence values *)

\* A confidence is a fraction of ConfOne: every confidence the matchers compute,
\* 0.5 + 0.3 * matches / n with n <= 10 included, is a whole number of units.
ConfOne == 100 * 252

\* The float literal with the given number of hundredths.
Hundredths(h) == h * 252

\* Time window for temporal correlation, in milliseconds.
TIME_WINDOW == 500

\* "Too close, likely same session": 0.001 s.
MIN_TIME_DIFF == 1

---------------------------------------------------------------------------
(* The matchers. A match is [a, b, conf]: two indices into the session list and *)
(* a confidence; the trace adds the method.                                   *)

is_direct_proxy(s1, s2) == s1.dst_ip = s2.src_ip

is_port_preserved(s1, s2) == s1.src_port = s2.src_port /\ s1.src_ip # s2.src_ip

is_same_vip(s1, s2) == s1.dst_ip = s2.dst_ip /\ s1.src_ip # s2.src_ip

\* The candidate of a pair without the test of the time window.
FingerprintPairAnyTime(ss, p) ==
    LET s1 == ss[p[1]]
        s2 == ss[p[2]]
    IN IF s1.src_ip = s2.src_ip /\ s1.dst_ip = s2.dst_ip THEN <<>>
       ELSE IF is_direct_proxy(s1, s2)
            THEN <<[a |-> p[1], b |-> p[2], conf |-> Hundredths(90)]>>
       ELSE IF is_port_preserved(s1, s2) /\ is_same_vip(s1, s2)
            THEN <<[a |-> p[1], b |-> p[2], conf |-> Hundredths(85)]>>
       ELSE IF is_port_preserved(s1, s2) \/ is_same_vip(s1, s2)
            THEN <<[a |-> p[1], b |-> p[2], conf |-> Hundredths(75)]>>
       ELSE <<>>

\* Lines 382-402: the candidate of one pair of a fingerprint group, <<>> when the
\* pair is rejected.
FingerprintPair(ss, p) ==
    LET s1 == ss[p[1]]
        s2 == ss[p[2]]
    IN IF s1.src_ip = s2.src_ip /\ s1.dst_ip = s2.dst_ip THEN <<>>
       ELSE IF Abs(s2.start_time - s1.start_time) > TIME_WINDOW * 2 THEN <<>>
       ELSE IF is_direct_proxy(s1, s2)
            THEN <<[a |-> p[1], b |-> p[2], conf |-> Hundredths(90)]>>
       ELSE IF is_port_preserved(s1, s2) /\ is_same_vip(s1, s2)
            THEN <<[a |-> p[1], b |-> p[2], conf |-> Hundredths(85)]>>
       ELSE IF is_port_preserved(s1, s2) \/ is_same_vip(s1, s2)
            THEN <<[a |-> p[1], b |-> p[2], conf |-> Hundredths(75)]>>
       ELSE <<>>

\* for session in sessions: the indices of ss in list order.
Indices(ss) == [i \in 1..Len(ss) |-> i]

\* _match_by_payload_fingerprint(sessions)
match_by_payload_fingerprint(ss) ==
    LET with_fp == SelectSeq(Indices(ss), LAMBDA i : ss[i].payload_fingerprint # <<>>)
        fingerprints == FirstAppearances(
            [k \in 1..Len(with_fp) |-> ss[with_fp[k]].payload_fingerprint])
        GroupOf(fp) ==
            LET group == SelectSeq(Indices(ss), LAMBDA i : ss[i].payload_fingerprint = fp)
            IN SortByKey(group, StartTimes(ss, group))
        OfGroup(g) ==
            LET pairs == LoopPairs(g)
            IN IF Len(g) >= 2
               THEN Flatten([k \in 1..Len(pairs) |-> FingerprintPair(ss, pairs[k])])
               ELSE <<>>
    IN Flatten([k \in 1..Len(fingerprints) |-> OfGroup(GroupOf(fingerprints[k]))])

\* A matcher that knows x-trace-id only.
OnlyTraceId == <<"x-trace-id">>

\* The headers that identify a request (lines 419-423, 877).
IdHeaders == <<"x-request-id", "x-correlation-id", "x-trace-id">>

\* xff.split(",") with each item stripped: the header texts of the model hold one
\* address.
SplitComma(text) == {text}

\* Lines 417-434: the pairs of the sessions that carry the same value of one
\* identifying header.
HeaderPairs(ss, header) ==
    LET carrying == SelectSeq(Indices(ss), LAMBDA i : ss[i].http_headers[header] # "")
        values == FirstAppearances(
            [k \in 1..Len(carrying) |-> ss[carrying[k]].http_headers[header]])
        GroupOf(v) ==
            LET group == SelectSeq(Indices(ss), LAMBDA i : ss[i].http_headers[header] = v)
            IN SortByKey(group, StartTimes(ss, group))
        OfGroup(g) ==
            LET pairs == LoopPairs(g)
                kept == SelectSeq(pairs,
                            LAMBDA p : ss[p[1]].session_id # ss[p[2]].session_id)
            IN IF Len(g) >= 2
               THEN [k \in 1..Len(kept) |->
                        [a |-> kept[k][1], b |-> kept[k][2], conf |-> Hundredths(95)]]
               ELSE <<>>
    IN Flatten([k \in 1..Len(values) |-> OfGroup(GroupOf(values[k]))])

\* Lines 437-449: X-Forwarded-For names the source address of another session
\* that starts within the time window.
XffPairs(ss) ==
    LET OfSession(i) ==
            LET xff == ss[i].http_headers["x-forwarded-for"]
                others == SelectSeq([j \in 1..Len(ss) |-> j],
                    LAMBDA j : /\ ss[j].session_id # ss[i].session_id
                               /\ ss[j].src_ip \in SplitComma(xff)
                               /\ Abs(ss[j].start_time - ss[i].start_time) < TIME_WINDOW)
            IN IF xff = "" THEN <<>>
               ELSE [k \in 1..Len(others) |->
                        [a |-> others[k], b |-> i, conf |-> Hundredths(90)]]
    IN Flatten([i \in 1..Len(ss) |-> OfSession(i)])

\* _match_by_http_headers(sessions)
match_by_http_headers(ss) ==
    Flatten([h \in 1..Len(IdHeaders) |-> HeaderPairs(ss, IdHeaders[h])]) \o XffPairs(ss)

Min(a, b) == IF a < b THEN a ELSE b

Max(a, b) == IF a > b THEN a ELSE b

\* Frames compared by the size similarity.
SIMILARITY_FRAMES == 10

\* _size_sequence_similarity(sizes1, sizes2): the fraction matches / n as the
\* record [matches, n]; 0.0 is [matches |-> 0, n |-> 1].
size_sequence_similarity(sizes1, sizes2) ==
    LET n == Min(Min(Len(sizes1), Len(sizes2)), SIMILARITY_FRAMES)
        \* abs(s1 - s2) <= max(100, 0.2 * max(s1, s2))
        Close(x, y) == 5 * Abs(x - y) <= Max(500, Max(x, y))
    IN IF sizes1 = <<>> \/ sizes2 = <<>> THEN [matches |-> 0, n |-> 1]
       ELSE IF n < 3 THEN [matches |-> 0, n |-> 1]
       ELSE [matches |-> Cardinality({i \in 1..n : Close(sizes1[i], sizes2[i])}),
             n |-> n]

\* 0.5 + (similarity * 0.3)
TimingConfidence(sim) == ConfOne \div 2 + (3 * (ConfOne \div 10) * sim.matches) \div sim.n

\* A threshold that lets a similarity of exactly 0.6 through.
TimingPairAtThreshold(ss, i, j) ==
    LET s1 == ss[i]
        s2 == ss[j]
        is_proxy_pattern ==
            \/ is_direct_proxy(s1, s2)
            \/ /\ s1.src_port = s2.src_port
               /\ s1.src_ip # s2.src_ip
               /\ (s1.dst_ip = s2.dst_ip \/ s1.dst_ip = s2.src_ip)
        sim == size_sequence_similarity(s1.packet_sizes, s2.packet_sizes)
    IN IF s2.start_time - s1.start_time < MIN_TIME_DIFF THEN <<>>
       ELSE IF s1.src_ip = s2.src_ip /\ s1.dst_ip = s2.dst_ip THEN <<>>
       ELSE IF ~is_proxy_pattern THEN <<>>
       ELSE IF s1.packet_sizes = <<>> \/ s2.packet_sizes = <<>> THEN <<>>
       ELSE IF 10 * sim.matches >= 6 * sim.n
            THEN <<[a |-> i, b |-> j, conf |-> TimingConfidence(sim)]>>
       ELSE <<>>

\* Lines 474-523: the candidate of the pair (s1, s2) of the time-sorted list.
TimingPair(ss, i, j) ==
    LET s1 == ss[i]
        s2 == ss[j]
        is_snat_pattern ==
            s1.src_port = s2.src_port /\ s1.dst_ip = s2.dst_ip /\ s1.src_ip # s2.src_ip
        is_port_preserved_proxy ==
            /\ s1.src_port = s2.src_port
            /\ s1.src_ip # s2.src_ip
            /\ (s1.dst_ip = s2.dst_ip \/ s1.dst_ip = s2.src_ip)
        is_proxy_pattern ==
            is_direct_proxy(s1, s2) \/ is_snat_pattern \/ is_port_preserved_proxy
        sim == size_sequence_similarity(s1.packet_sizes, s2.packet_sizes)
    IN IF s2.start_time - s1.start_time < MIN_TIME_DIFF THEN <<>>
       ELSE IF s1.src_ip = s2.src_ip /\ s1.dst_ip = s2.dst_ip THEN <<>>
       ELSE IF ~is_proxy_pattern THEN <<>>
       ELSE IF s1.packet_sizes = <<>> \/ s2.packet_sizes = <<>> THEN <<>>
       ELSE IF 10 * sim.matches > 6 * sim.n
            THEN <<[a |-> i, b |-> j, conf |-> TimingConfidence(sim)]>>
       ELSE <<>>

\* The inner loop of _match_by_timing_and_size for one i, over the positions
\* after i of the time-sorted index list: it breaks at the first session outside
\* the window.
TimingFrom(ss, order, i) ==
    LET Outside(j) ==
            ss[order[j]].start_time - ss[order[i]].start_time > TIME_WINDOW
        outside == {j \in (i + 1)..Len(order) : Outside(j)}
        break == IF outside = {} THEN Len(order) + 1
                 ELSE CHOOSE j \in outside : \A o \in outside : j <= o
    IN Flatten([k \in 1..(break - i - 1) |-> TimingPair(ss, order[i], order[i + k])])

\* _match_by_timing_and_size(sessions)
match_by_timing_and_size(ss) ==
    LET order == SortByKey(Indices(ss), StartTimes(ss, Indices(ss)))
    IN Flatten([i \in 1..Len(order) |-> TimingFrom(ss, order, i)])

---------------------------------------------------------------------------
(* Deduplication (trace_single_file lines 800-806, trace_multi_file 908-919) *)

\* tuple(sorted([s1.session_id, s2.session_id])): the unordered pair of the ids.
SingleFileKey(ss, m) == {ss[m.a].session_id, ss[m.b].session_id}

\* f"{s.file_source}:{s.session_id}"
SessionKey(s) == <<s.file_source, s.session_id>>

\* The sorted pair of the two "file:id" keys.
MultiFileKey(ss, m) == {SessionKey(ss[m.a]), SessionKey(ss[m.b])}

\* A faulty comparison: a later candidate of equal confidence replaces the kept one.
ReplacesOnTie(conf, kept_conf) == conf >= kept_conf

\* conf > best_matches[key][2]
Replaces(conf, kept_conf) == conf > kept_conf

\* The loop over all_matches on items [key, match]: best is the dict
\* best_matches as the sequence of its items in insertion order.
RECURSIVE DedupeKeyed(_, _)
DedupeKeyed(best, items) ==
    IF items = <<>> THEN best
    ELSE
      LET it == items[1]
          at == IF \E k \in 1..Len(best) : best[k].key = it.key
                THEN CHOOSE k \in 1..Len(best) : best[k].key = it.key
                ELSE 0
      IN DedupeKeyed(
            IF at = 0 THEN Append(best, it)
            ELSE IF Replaces(it.match.conf, best[at].match.conf)
                 THEN [best EXCEPT ![at] = it]
                 ELSE best,
            Tail(items))

\* list(best_matches.values())
Dedupe(candidates, keys) ==
    LET best == DedupeKeyed(<<>>,
                    [k \in 1..Len(candidates) |->
                        [key |-> keys[k], match |-> candidates[k]]])
    IN ListOf([k \in 1..Len(best) |-> best[k].match])

---------------------------------------------------------------------------
(* _build_chains: union-find *)
(* A node is the index of a session in the session list: within one trace the *)
(* key "file_source:session_id" names exactly one session.                  *)

\* The root that following parent from x reaches.
RECURSIVE RootOf(_, _)
RootOf(parent, x) ==
    IF x \notin DOMAIN parent \/ parent[x] = x THEN x ELSE RootOf(parent, parent[x])

\* The nodes on the way from x to its root, x included and the root excluded.
RECURSIVE PathOf(_, _)
PathOf(parent, x) ==
    IF x \notin DOMAIN parent \/ parent[x] = x THEN {}
    ELSE {x} \cup PathOf(parent, parent[x])

\* find(x), lines 597-602: the parent dict after the call, with x entered when it
\* was new and every node on the path pointed at the root.
FindCompress(parent, x) ==
    LET root == RootOf(parent, x)
        path == PathOf(parent, x)
    IN [n \in DOMAIN parent \cup {x} |->
           IF n = x \/ n \in path THEN root ELSE parent[n]]

\* A faulty union: x itself is hung under y, whatever their roots are.
UnionDirect(parent, x, y) ==
    LET p1 == FindCompress(parent, x)
        p2 == FindCompress(p1, y)
    IN IF x # y THEN [p2 EXCEPT ![x] = y] ELSE p2

\* union(x, y), lines 604-607.
Union(parent, x, y) ==
    LET p1 == FindCompress(parent, x)
        px == p1[x]
        p2 == FindCompress(p1, y)
        py == p2[y]
    IN IF px # py THEN [p2 EXCEPT ![px] = py] ELSE p2

RECURSIVE UnionAll(_, _)
UnionAll(parent, matches) ==
    IF matches = <<>> THEN parent
    ELSE UnionAll(Union(parent, matches[1].a, matches[1].b), Tail(matches))

EmptyParent == [n \in {} |-> n]

\* The keys of session_map in insertion order (lines 613-617).
SessionMapKeys(matches) ==
    FirstAppearances(Flatten([k \in 1..Len(matches) |-> <<matches[k].a, matches[k].b>>]))

\* groups.values(), lines 622-624: the groups in the order their roots are first
\* met, each in session_map order.
GroupsOf(parent, keys) ==
    LET roots == FirstAppearances([k \in 1..Len(keys) |-> RootOf(parent, keys[k])])
    IN [r \in 1..Len(roots) |->
           SelectSeq(keys, LAMBDA key : RootOf(parent, key) = roots[r])]

Groups(matches) ==
    GroupsOf(UnionAll(EmptyParent, matches), SessionMapKeys(matches))

---------------------------------------------------------------------------
(* _split_invalid_chains *)

\* A faulty predicate: every pair of sessions passes as two consecutive hops.
AnyHopPair(s1, s2) == TRUE

\* _is_valid_hop_pair(s1, s2)
is_valid_hop_pair(s1, s2) ==
    \/ is_direct_proxy(s1, s2)
    \/ (is_port_preserved(s1, s2) /\ is_same_vip(s1, s2))
    \/ is_port_preserved(s1, s2)

\* The walk of lines 567-579 over sorted_keys from position i: done are the chains
\* closed so far, current is current_chain.
RECURSIVE SplitWalk(_, _, _, _, _)
SplitWalk(ss, sorted_keys, i, done, current) ==
    IF i > Len(sorted_keys)
    THEN IF Len(current) >= 2 THEN Append(done, current) ELSE done
    ELSE IF is_valid_hop_pair(ss[current[Len(current)]], ss[sorted_keys[i]])
         THEN SplitWalk(ss, sorted_keys, i + 1, done, Append(current, sorted_keys[i]))
         ELSE SplitWalk(ss, sorted_keys, i + 1,
                        IF Len(current) >= 2 THEN Append(done, current) ELSE done,
                        <<sorted_keys[i]>>)

\* A faulty split: every valid pair of consecutive sessions is a sub-chain of its
\* own, so a session between two valid pairs is in two sub-chains.
SplitIntoPairs(ss, group_keys) ==
    LET sorted_keys == SortByKey(group_keys, StartTimes(ss, group_keys))
        valid == SelectSeq([i \in 1..(Len(sorted_keys) - 1) |-> i],
                           LAMBDA i : is_valid_hop_pair(ss[sorted_keys[i]],
                                                        ss[sorted_keys[i + 1]]))
    IN IF Len(group_keys) <= 1 THEN <<group_keys>>
       ELSE [k \in 1..Len(valid) |-> <<sorted_keys[valid[k]], sorted_keys[valid[k] + 1]>>]

\* _split_invalid_chains(group_keys, session_map)
split_invalid_chains(ss, group_keys) ==
    LET sorted_keys == SortByKey(group_keys, StartTimes(ss, group_keys))
    IN IF Len(group_keys) <= 1 THEN <<group_keys>>
       ELSE SplitWalk(ss, sorted_keys, 2, <<>>, <<sorted_keys[1]>>)

---------------------------------------------------------------------------
(* _build_chains: one chain per valid sub-chain *)

\* match_info[(k1, k2)] as the dict holds it: the last match stored under the
\* ordered pair, <<>> when there is none.
MatchInfo(matches, k1, k2) ==
    LET hits == SelectSeq(matches, LAMBDA m : m.a = k1 /\ m.b = k2)
    IN IF hits = <<>> THEN <<>> ELSE <<hits[Len(hits)]>>

\* A faulty default: a pair without a stored edge adds nothing to the total.
InferredAsZero == [conf |-> 0, method |-> "inferred"]

\* Confidence and method of a pair without a stored edge (line 647).
InferredEdge == [conf |-> Hundredths(50), method |-> "inferred"]

\* Lines 641-647: the edge between two members that are consecutive in the chain.
EdgeBetween(matches, k1, k2) ==
    IF MatchInfo(matches, k1, k2) # <<>>
    THEN [conf |-> MatchInfo(matches, k1, k2)[1].conf,
          method |-> MatchInfo(matches, k1, k2)[1].method]
    ELSE IF MatchInfo(matches, k2, k1) # <<>>
    THEN [conf |-> MatchInfo(matches, k2, k1)[1].conf,
          method |-> MatchInfo(matches, k2, k1)[1].method]
    ELSE InferredEdge

\* ChainHop of the request direction (lines 685-700), times in milliseconds.
forward_hop(s) ==
    [ session_id |-> s.session_id,
      src |-> <<s.src_ip, s.src_port>>,
      dst |-> <<s.dst_ip, s.dst_port>>,
      packet_count |-> s.forward_packets,
      byte_count |-> s.forward_bytes,
      duration |-> IF s.forward_packets > 0 THEN s.forward_end - s.forward_start ELSE 0,
      file |-> s.file_source,
      direction |-> "request",
      start_time |-> s.forward_start,
      missing |-> (s.forward_packets = 0) ]

\* ChainHop of the response direction (lines 719-734).
backward_hop(s) ==
    [ session_id |-> s.session_id,
      src |-> <<s.dst_ip, s.dst_port>>,
      dst |-> <<s.src_ip, s.src_port>>,
      packet_count |-> s.backward_packets,
      byte_count |-> s.backward_bytes,
      duration |-> IF s.backward_packets > 0 THEN s.backward_end - s.backward_start ELSE 0,
      file |-> s.file_source,
      direction |-> "response",
      start_time |-> s.backward_start,
      missing |-> (s.backward_packets = 0) ]

\* A faulty hop list: a direction without packets gets no hop.
HopsPresent(s) ==
    SelectSeq(<<forward_hop(s), backward_hop(s)>>, LAMBDA h : ~h.missing)

\* Lines 662-735: two hops per member, in member order.
HopsOf(s) == <<forward_hop(s), backward_hop(s)>>

\* directional_hops.sort(key=lambda h: h.start_time if h.start_time > 0 else inf):
\* stable, so the hops with a positive start_time come first in time order and the
\* others follow in the order they were appended.
SortHops(hops) ==
    LET timed == SelectSeq(hops, LAMBDA h : h.start_time > 0)
    IN SortByKey(timed, [k \in 1..Len(timed) |-> timed[k].start_time])
       \o SelectSeq(hops, LAMBDA h : ~(h.start_time > 0))

directional_hops(ss, sorted_keys) ==
    SortHops(Flatten([k \in 1..Len(sorted_keys) |-> HopsOf(ss[sorted_keys[k]])]))

\* Lines 743-750, in milliseconds.
latency_ms(ss, sorted_keys) ==
    LET first_session == ss[sorted_keys[1]]
        last_session == ss[sorted_keys[Len(sorted_keys)]]
        first_time == IF first_session.forward_start # 0
                      THEN first_session.forward_start ELSE first_session.start_time
        last_time == IF last_session.backward_end # 0
                     THEN last_session.backward_end ELSE last_session.end_time
    IN last_time - first_time

\* A chain before its confidence is rounded and its method is picked: the members
\* in chain order, the edges between consecutive members, the hops.
RawChain(ss, matches, sorted_keys) ==
    [ members |-> sorted_keys,
      edges |-> [i \in 1..(Len(sorted_keys) - 1) |->
                    EdgeBetween(matches, sorted_keys[i], sorted_keys[i + 1])],
      hops |-> directional_hops(ss, sorted_keys),
      latency_ms |-> latency_ms(ss, sorted_keys) ]

\* Lines 627-636: the sub-chains of at least two members of the groups of at
\* least two members, in the order they are emitted.
SubChains(ss, matches) ==
    LET groups == Groups(matches)
        OfGroup(g) == IF Len(g) < 2 THEN <<>>
                      ELSE SelectSeq(split_invalid_chains(ss, g), LAMBDA c : Len(c) >= 2)
    IN Flatten([g \in 1..Len(groups) |-> OfGroup(groups[g])])

RawChains(ss, matches) ==
    LET subs == SubChains(ss, matches)
    IN [k \in 1..Len(subs) |-> RawChain(ss, matches, subs[k])]

RECURSIVE SumConf(_)
SumConf(edges) == IF edges = <<>> THEN 0 ELSE edges[1].conf + SumConf(Tail(edges))

\* round(total_conf / n, 2), in hundredths: the hundredths nearest to the mean.
\* When the mean lies half way between two of them the binary representation of
\* the float decides, so both are results.
Round2(total, n) ==
    {h \in 0..100 : 2 * Abs(Hundredths(h) * n - total) <= Hundredths(1) * n}

\* max(set(methods_used), key=methods_used.count): the first of the most frequent
\* methods in the iteration order of the set, which is any of them.
PrimaryMethods(edges) ==
    LET Count(m) == Cardinality({i \in 1..Len(edges) : edges[i].method = m})
        used == {edges[i].method : i \in 1..Len(edges)}
    IN {m \in used : \A o \in used : Count(o) <= Count(m)}

\* f"{n:03d}": the decimal digits of n, zero-padded to three.
RECURSIVE Digits(_)
Digits(n) == IF n < 10 THEN <<n>> ELSE Append(Digits(n \div 10), n % 10)

Format03d(n) ==
    IF n < 10 THEN <<0, 0>> \o Digits(n)
    ELSE IF n < 100 THEN <<0>> \o Digits(n)
    ELSE Digits(n)

\* f"chain_{self.chain_counter:03d}"
ChainId(n) == <<"chain_", Format03d(n)>>

\* self.chain_counter += 1 and the SessionChain of lines 752-761, for each way the
\* rounding and the choice of the method can come out. members is sorted_keys, the
\* sessions of the chain in chain order, kept beside the dataclass fields.
SessionChains(raw, counter) ==
    { [ chain_id |-> ChainId(counter + 1),
        confidence |-> c,
        method |-> m,
        hops |-> raw.hops,
        latency_ms |-> raw.latency_ms,
        members |-> raw.members ] :
      c \in Round2(SumConf(raw.edges), Len(raw.edges)),
      m \in PrimaryMethods(raw.edges) }

\* The chain lists the loop of lines 628-761 can build from counter on.
RECURSIVE EmittedChains(_, _)
EmittedChains(raws, counter) ==
    IF raws = <<>> THEN {<<>>}
    ELSE { <<c>> \o rest : c \in SessionChains(raws[1], counter),
                           rest \in EmittedChains(Tail(raws), counter + 1) }

\* A descending sort made of an ascending sort and a reversal: chains of equal
\* confidence come out in the reverse of their emission order.
SortThenReverse(built) ==
    LET up == SortByKey(built, [k \in 1..Len(built) |-> built[k].confidence])
    IN [k \in 1..Len(built) |-> up[Len(built) + 1 - k]]

\* chains.sort(key=lambda c: c.confidence, reverse=True): stable.
SortChains(built) ==
    SortByKey(built, [k \in 1..Len(built) |-> 0 - built[k].confidence])

\* _build_chains(matches, ...): the lists it may return. With no match it returns
\* [] at once.
build_chains(ss, matches, counter) ==
    IF matches = <<>> THEN {<<>>}
    ELSE {SortChains(cs) : cs \in EmittedChains(RawChains(ss, matches), counter)}

---------------------------------------------------------------------------
(* trace_single_file and trace_multi_file *)

WithMethod(matches, method) ==
    [k \in 1..Len(matches) |->
        [a |-> matches[k].a, b |-> matches[k].b,
         conf |-> matches[k].conf, method |-> method]]

\* Lines 783-798: the candidates of the three strategies, in the order they are
\* appended to all_matches.
SingleFileMatches(ss) ==
    WithMethod(match_by_payload_fingerprint(ss), "payload_fingerprint")
    \o WithMethod(match_by_http_headers(ss), "http_header")
    \o WithMethod(match_by_timing_and_size(ss), "timing_size")

\* unmatched_sessions[:50]
UNMATCHED_LIMIT == 50

\* A faulty slice: the whole list.
NoTruncate(list, limit) == list

Truncate(list, limit) == SubSeq(list, 1, Min(Len(list), limit))

\* method_counts: the number of chains per method.
MethodCounts(methods) ==
    [m \in {methods[k] : k \in 1..Len(methods)} |->
        Cardinality({k \in 1..Len(methods) : methods[k] = m})]

\* asdict(c): the fields of the SessionChain dataclass.
ChainDict(c) ==
    [chain_id |-> c.chain_id, confidence |-> c.confidence, method |-> c.method,
     hops |-> c.hops, latency_ms |-> c.latency_ms]

\* The result returned when no session was extracted (lines 775-780, 856-861).
EmptyResult ==
    [ chains |-> <<>>,
      unmatched_sessions |-> <<>>,
      stats |-> [total_sessions |-> 0, matched_chains |-> 0,
                 methods_used |-> MethodCounts(<<>>)] ]

\* A faulty collection: matched_ids starts empty again at every chain, so it ends
\* with the sessions of the last chain only.
LastChainIds(built) ==
    IF built = <<>> THEN {}
    ELSE {built[Len(built)].hops[h].session_id : h \in 1..Len(built[Len(built)].hops)}

\* Lines 812-815: the session_id of every hop of every chain.
MatchedIds(built) ==
    UNION { {built[c].hops[h].session_id : h \in 1..Len(built[c].hops)} :
                c \in 1..Len(built) }

\* Lines 811-842: matched_ids, the unmatched list and the result.
SingleFileResult(ss, built) ==
    LET matched_ids == MatchedIds(built)
        unmatched == SelectSeq(ss, LAMBDA x : x.session_id \notin matched_ids)
    IN [ chains |-> [c \in 1..Len(built) |-> ChainDict(built[c])],
         unmatched_sessions |->
            Truncate([k \in 1..Len(unmatched) |->
                        [session_id |-> unmatched[k].session_id,
                         src |-> <<unmatched[k].src_ip, unmatched[k].src_port>>,
                         dst |-> <<unmatched[k].dst_ip, unmatched[k].dst_port>>,
                         packets |-> unmatched[k].packet_count]],
                     UNMATCHED_LIMIT),
         stats |-> [total_sessions |-> Len(ss),
                    matched_chains |-> Len(built),
                    matched_sessions |-> Cardinality(matched_ids),
                    methods_used |->
                        MethodCounts([c \in 1..Len(built) |-> built[c].method])] ]

\* A faulty start: the counter goes on from the trace before.
KeepCounter(counter) == counter

\* self.chain_counter = 0 (lines 772, 849)
CounterAtStart(counter) == 0

\* trace_single_file(filepath) on a capture: every outcome of the call, as the
\* values of the locals and of self.chain_counter when it returns.
trace_single_file(capture, available, counter) ==
    LET ss == extract_sessions(capture, "capture.pcap", available)
        all == SingleFileMatches(ss)
        best == Dedupe(all, [k \in 1..Len(all) |-> SingleFileKey(ss, all[k])])
    IN IF ss = <<>>
       THEN { [sessions |-> ss, all_matches |-> <<>>, best_matches |-> <<>>,
               chains |-> <<>>, result |-> EmptyResult,
               chain_counter |-> CounterAtStart(counter)] }
       ELSE { [sessions |-> ss, all_matches |-> all, best_matches |-> best,
               chains |-> built, result |-> SingleFileResult(ss, built),
               chain_counter |-> CounterAtStart(counter) + Len(built)] :
              built \in build_chains(ss, best, CounterAtStart(counter)) }

\* A comparison of fingerprints that takes two empty ones for a match.
EqualFingerprints(s1, s2) == s1.payload_fingerprint = s2.payload_fingerprint

\* s1.payload_fingerprint and s1.payload_fingerprint == s2.payload_fingerprint
\* (lines 871-872).
SameFingerprint(s1, s2) ==
    /\ s1.payload_fingerprint # <<>>
    /\ s1.payload_fingerprint = s2.payload_fingerprint

\* A cross-file loop that finds no candidate.
NoCrossPair(all_sessions, i, j) == <<>>

\* Lines 870-893: the candidates of one pair (s1, s2) of sessions1 x sessions2,
\* i and j their indices in all_sessions.
CrossPair(all_sessions, i, j) ==
    LET s1 == all_sessions[i]
        s2 == all_sessions[j]
        sim == size_sequence_similarity(s1.packet_sizes, s2.packet_sizes)
        by_fingerprint ==
            IF SameFingerprint(s1, s2)
            THEN <<[a |-> i, b |-> j, conf |-> Hundredths(90),
                    method |-> "payload_fingerprint"]>>
            ELSE <<>>
        ByHeader(header) ==
            IF s1.http_headers[header] # ""
               /\ s1.http_headers[header] = s2.http_headers[header]
            THEN <<[a |-> i, b |-> j, conf |-> Hundredths(95),
                    method |-> "http_header:" \o header]>>
            ELSE <<>>
        by_timing ==
            IF /\ Abs(s1.start_time - s2.start_time) < TIME_WINDOW
               /\ s1.packet_sizes # <<>> /\ s2.packet_sizes # <<>>
               /\ 2 * sim.matches > sim.n
            THEN <<[a |-> i, b |-> j, conf |-> TimingConfidence(sim),
                    method |-> "timing_size"]>>
            ELSE <<>>
    IN by_fingerprint
       \o Flatten([h \in 1..Len(IdHeaders) |-> ByHeader(IdHeaders[h])])
       \o by_timing

\* The matches of a matcher run on one file's sessions, as indices into
\* all_sessions.
Shifted(matches, offset) ==
    [k \in 1..Len(matches) |->
        [matches[k] EXCEPT !.a = @ + offset, !.b = @ + offset]]

\* Lines 864-906: cross-file candidates first, then the intra-file ones.
MultiFileMatches(sessions1, sessions2) ==
    LET all_sessions == sessions1 \o sessions2
        n1 == Len(sessions1)
        n2 == Len(sessions2)
        cross == Flatten([i \in 1..n1 |->
                    Flatten([j \in 1..n2 |-> CrossPair(all_sessions, i, n1 + j)])])
        Intra(ss, offset) ==
            Shifted(WithMethod(match_by_payload_fingerprint(ss), "payload_fingerprint"),
                    offset)
            \o Shifted(WithMethod(match_by_http_headers(ss), "http_header"), offset)
    IN cross \o Intra(sessions1, 0) \o Intra(sessions2, n1)

\* chain.method.split(":")[0]
MethodFamily(method) ==
    IF method \in {"http_header:" \o IdHeaders[h] : h \in 1..Len(IdHeaders)}
    THEN "http_header" ELSE method

\* Lines 930-966: matched_ids, the unmatched list and the result.
MultiFileResult(sessions1, sessions2, built) ==
    LET all_sessions == sessions1 \o sessions2
        matched_ids == UNION { {<<built[c].hops[h].file, built[c].hops[h].session_id>> :
                                    h \in 1..Len(built[c].hops)} : c \in 1..Len(built) }
        unmatched == SelectSeq(all_sessions, LAMBDA x : SessionKey(x) \notin matched_ids)
    IN [ chains |-> [c \in 1..Len(built) |-> ChainDict(built[c])],
         unmatched_sessions |->
            Truncate([k \in 1..Len(unmatched) |->
                        [session_id |-> unmatched[k].session_id,
                         src |-> <<unmatched[k].src_ip, unmatched[k].src_port>>,
                         dst |-> <<unmatched[k].dst_ip, unmatched[k].dst_port>>,
                         packets |-> unmatched[k].packet_count,
                         file |-> unmatched[k].file_source]],
                     UNMATCHED_LIMIT),
         stats |-> [total_sessions |-> Len(all_sessions),
                    file1_sessions |-> Len(sessions1),
                    file2_sessions |-> Len(sessions2),
                    matched_chains |-> Len(built),
                    matched_sessions |-> Cardinality(matched_ids),
                    methods_used |->
                        MethodCounts([c \in 1..Len(built) |->
                                         MethodFamily(built[c].method)])] ]

\* trace_multi_file(file1, file2) on two captures: every outcome of the call.
trace_multi_file(capture1, capture2, available, counter) ==
    LET sessions1 == extract_sessions(capture1, "file1", available)
        sessions2 == extract_sessions(capture2, "file2", available)
        ss == sessions1 \o sessions2
        all == MultiFileMatches(sessions1, sessions2)
        best == Dedupe(all, [k \in 1..Len(all) |-> MultiFileKey(ss, all[k])])
    IN IF ss = <<>>
       THEN { [sessions |-> ss, all_matches |-> <<>>, best_matches |-> <<>>,
               chains |-> <<>>, result |-> EmptyResult,
               chain_counter |-> CounterAtStart(counter)] }
       ELSE { [sessions |-> ss, all_matches |-> all, best_matches |-> best,
               chains |-> built,
               result |-> MultiFileResult(sessions1, sessions2, built),
               chain_counter |-> CounterAtStart(counter) + Len(built)] :
              built \in build_chains(ss, best, CounterAtStart(counter)) }

---------------------------------------------------------------------------
(* SpecExtract: the row loop of _extract_sessions, one row per step *)

\* A text that int() and float() reject.
NotANumber == <<10>>

PortTexts == {<<8, 0>>, NotANumber}

TimeTexts == {<<>>, <<0>>, <<1>>, <<2>>}

LenTexts == {<<6, 0>>, NotANumber}

\* The rows the dissector may deliver in SpecExtract: two streams and the empty
\* stream id, two hosts, every mix of well-formed and malformed numeric fields.
ExtractRows ==
    { [stream |-> st, ip_src |-> ip[1], ip_dst |-> ip[2],
       srcport |-> pt[1], dstport |-> pt[2],
       time_epoch |-> ts, len |-> ln, payload |-> <<>>] :
        st \in {<<>>, <<0>>, <<1>>},
        ip \in {<<"A", "B">>, <<"B", "A">>},
        pt \in {p \in PortTexts \X PortTexts : p[1] = <<8, 0>> \/ p[2] = <<8, 0>>},
        ts \in TimeTexts,
        ln \in LenTexts }

\* No trace is in progress: the tracer as __init__ leaves it.
NoTrace ==
    /\ chain_counter = 0
    /\ tstatus = "idle"
    /\ mode = ""
    /\ counter_at_call = 0
    /\ all_matches = <<>>
    /\ best_matches = <<>>
    /\ chains = <<>>
    /\ result = <<>>

\* No aggregator is running.
NoAggregate ==
    /\ afunc = ""
    /\ astatus = "idle"
    /\ acc = <<>>
    /\ arows = 0

\* No iteration of stream_fields is being followed.
NoStream ==
    /\ gen = "none"
    /\ child = "none"
    /\ proc_calls = <<>>
    /\ consumer = ""
    /\ control = "caller"
    /\ ref = "none"
    /\ pending = 0
    /\ taken = 0
    /\ want = 0
    /\ outcome = ""

InitExtract ==
    /\ sessions = <<>>
    /\ xstatus = "reading"
    /\ xcause = ""
    /\ nrows = 0
    /\ nstream = 0
    /\ delivered = <<>>
    /\ NoTrace
    /\ NoStream
    /\ NoAggregate

\* The generator yields a row and the loop body runs on it.
ReadRow(row) ==
    /\ xstatus = "reading"
    /\ nrows < MaxRows
    /\ LET r == ExtractRow(sessions, row, "capture.pcap")
       IN /\ sessions' = r.sessions
          /\ xstatus' = IF r.raised THEN "returned" ELSE "reading"
          /\ xcause' = IF r.raised THEN "row_error" ELSE ""
    /\ nrows' = nrows + 1
    /\ nstream' = IF row.stream = <<>> THEN nstream ELSE nstream + 1
    /\ UNCHANGED <<delivered, trace_vars, stream_vars, agg_vars>>

\* The rows are exhausted (the child's output ended).
StreamEnd ==
    /\ xstatus = "reading"
    /\ xstatus' = "returned"
    /\ xcause' = "exhausted"
    /\ UNCHANGED <<sessions, nrows, nstream, delivered, trace_vars, stream_vars, agg_vars>>

\* The generator itself raises between two rows (the spawn fails, the CSV reader
\* fails): the outer except clause (line 203) ends the loop.
StreamFail ==
    /\ xstatus = "reading"
    /\ xstatus' = "returned"
    /\ xcause' = "stream_failure"
    /\ UNCHANGED <<sessions, nrows, nstream, delivered, trace_vars, stream_vars, agg_vars>>

NextExtract ==
    \/ \E row \in ExtractRows : ReadRow(row)
    \/ StreamEnd
    \/ StreamFail

SpecExtract == InitExtract /\ [][NextExtract]_vars

\* SpecExtractTimed: the same loop on rows whose numeric fields all parse.
WellFormedRows ==
    { row \in ExtractRows :
        /\ ParseOk(row.srcport) /\ ParseOk(row.dstport)
        /\ ParseOk(row.time_epoch) /\ ParseOk(row.len) }

NextExtractTimed ==
    \/ \E row \in WellFormedRows : ReadRow(row)
    \/ StreamEnd
    \/ StreamFail

SpecExtractTimed == InitExtract /\ [][NextExtractTimed]_vars

---------------------------------------------------------------------------
(* SpecFingerprint and SpecSizes: the same row loop with the rows it was given *)
(* kept in delivered, on rows that carry payload and on streams of more than   *)
(* MAX_PACKET_SIZES frames                                                     *)

\* The generator yields a row and the loop body runs on it; at most limit rows
\* are delivered.
ReadRecorded(row, limit) ==
    /\ xstatus = "reading"
    /\ nrows < limit
    /\ LET r == ExtractRow(sessions, row, "capture.pcap")
       IN /\ sessions' = r.sessions
          /\ xstatus' = IF r.raised THEN "returned" ELSE "reading"
          /\ xcause' = IF r.raised THEN "row_error" ELSE ""
    /\ nrows' = nrows + 1
    /\ nstream' = IF row.stream = <<>> THEN nstream ELSE nstream + 1
    /\ delivered' = Append(delivered, row)
    /\ UNCHANGED <<trace_vars, stream_vars, agg_vars>>

\* Rows SpecFingerprint delivers.
MaxPayloadRows == 4

\* tcp.payload texts, as the bytes they spell: below MIN_PAYLOAD bytes, exactly
\* MIN_PAYLOAD bytes ("GET / HT"), more than FINGERPRINT_SIZE bytes, and a text
\* bytes.fromhex rejects (256 stands for a pair that is not two hex digits).
ShortPayload == <<22, 3, 1, 0>>

GetPayload == <<71, 69, 84, 32, 47, 32, 72, 84>>

LongPayload == [i \in 1..(FINGERPRINT_SIZE + 1) |-> i]

BadHexPayload == <<256, 69, 84, 32, 47, 32, 72, 84, 84>>

PayloadTexts == {<<>>, ShortPayload, GetPayload, LongPayload, BadHexPayload}

PayloadRows ==
    { [stream |-> st, ip_src |-> "A", ip_dst |-> "B",
       srcport |-> <<8, 0>>, dstport |-> <<8, 0>>,
       time_epoch |-> <<1>>, len |-> ln, payload |-> pl] :
        st \in {<<0>>, <<1>>}, ln \in LenTexts, pl \in PayloadTexts }

NextFingerprint ==
    \/ \E row \in PayloadRows : ReadRecorded(row, MaxPayloadRows)
    \/ StreamEnd
    \/ StreamFail

SpecFingerprint == InitExtract /\ [][NextFingerprint]_vars

\* Rows SpecSizes delivers: two more than the sizes a session keeps.
MaxSizeRows == 22

\* Rows of the second stream among them.
MaxOtherRows == 2

\* The rows of stream stream_id in a list of rows, in order.
RowsOf(rows, stream_id) == SelectSeq(rows, LAMBDA row : row.stream = stream_id)

\* The rows SpecSizes may deliver after the rows before: the frame at position k
\* of the capture is 60 + k % 3 bytes long or has a frame.len that is not a
\* number; it belongs to stream 0 or, MaxOtherRows times, to stream 1.
SizeRows(before) ==
    { [stream |-> st, ip_src |-> "A", ip_dst |-> "B",
       srcport |-> <<8, 0>>, dstport |-> <<8, 0>>,
       time_epoch |-> <<1>>, len |-> ln, payload |-> <<>>] :
        st \in {<<0>>} \cup (IF Len(RowsOf(before, <<1>>)) < MaxOtherRows
                              THEN {<<1>>} ELSE {}),
        ln \in {Digits(60 + (Len(before) % 3)), NotANumber} }

NextSizes ==
    \/ \E row \in SizeRows(delivered) : ReadRecorded(row, MaxSizeRows)
    \/ StreamEnd
    \/ StreamFail

SpecSizes == InitExtract /\ [][NextSizes]_vars

---------------------------------------------------------------------------
(* SpecHarvest: the row loop of _extract_http_headers, one row per step, on   *)
(* the sessions the first pass left                                            *)

\* Rows the "http" pass delivers.
MaxHarvestRows == 3

\* What a row of the "http" pass can carry in its payload: nothing, a text
\* bytes.fromhex rejects, or a decodable payload in which the regular expressions
\* find an X-Request-Id line ("r1", "r2" or none) and an X-Forwarded-For line
\* ("B" or none).
HarvestPayloads ==
    { [payload |-> <<>>, header_lines |-> NoHeaders],
      [payload |-> BadHexPayload, header_lines |-> NoHeaders] }
    \cup { [payload |-> GetPayload,
            header_lines |-> [NoHeaders EXCEPT !["x-request-id"] = rid,
                                               !["x-forwarded-for"] = xff]] :
            rid \in {"", "r1", "r2"}, xff \in {"", "B"} }

\* The rows of the "http" pass: streams 0 and 1 are known sessions, stream 2 is
\* not; http.x_forwarded_for is absent or "A".
HarvestRows ==
    { [stream |-> st, http_xff |-> field, payload |-> pl.payload,
       header_lines |-> pl.header_lines] :
        st \in {<<0>>, <<1>>, <<2>>}, field \in {"", "A"}, pl \in HarvestPayloads }

\* The two rows the first pass read before the harvest.
FirstPassRows ==
    << [stream |-> <<0>>, ip_src |-> "A", ip_dst |-> "B", srcport |-> <<8, 0>>,
        dstport |-> <<8, 0>>, time_epoch |-> <<1>>, len |-> <<6, 0>>,
        payload |-> <<>>],
       [stream |-> <<1>>, ip_src |-> "B", ip_dst |-> "A", srcport |-> <<8, 0>>,
        dstport |-> <<8, 0>>, time_epoch |-> <<2>>, len |-> <<6, 0>>,
        payload |-> <<>>] >>

\* _extract_http_headers is entered with the sessions of the first pass.
InitHarvest ==
    /\ sessions = FirstPass(<<>>, FirstPassRows, "capture.pcap")
    /\ xstatus = "harvesting"
    /\ xcause = ""
    /\ nrows = 0
    /\ nstream = 0
    /\ delivered = <<>>
    /\ NoTrace
    /\ NoStream
    /\ NoAggregate

\* The generator yields a row of the "http" pass and the loop body runs on it.
HarvestRecorded(row) ==
    /\ xstatus = "harvesting"
    /\ nrows < MaxHarvestRows
    /\ sessions' = HarvestRow(sessions, row)
    /\ nrows' = nrows + 1
    /\ delivered' = Append(delivered, row)
    /\ UNCHANGED <<xstatus, xcause, nstream, trace_vars, stream_vars, agg_vars>>

\* The rows are exhausted and _extract_sessions returns the sessions.
HarvestEnd ==
    /\ xstatus = "harvesting"
    /\ xstatus' = "returned"
    /\ xcause' = "exhausted"
    /\ UNCHANGED <<sessions, nrows, nstream, delivered, trace_vars, stream_vars,
                   agg_vars>>

\* The generator raises between two rows: the except clause of line 263 ends the
\* loop and the sessions are returned as they are.
HarvestFail ==
    /\ xstatus = "harvesting"
    /\ xstatus' = "returned"
    /\ xcause' = "stream_failure"
    /\ UNCHANGED <<sessions, nrows, nstream, delivered, trace_vars, stream_vars,
                   agg_vars>>

NextHarvest ==
    \/ \E row \in HarvestRows : HarvestRecorded(row)
    \/ HarvestEnd
    \/ HarvestFail

SpecHarvest == InitHarvest /\ [][NextHarvest]_vars

---------------------------------------------------------------------------
(* SpecTrace: whole calls of trace_single_file and trace_multi_file on one    *)
(* LinkTracer, each followed by the caller taking the result                   *)

\* Flows of a capture read by trace_single_file and of the two captures read by
\* trace_multi_file.
MaxFlows == 4
MaxMultiFlows == 3

\* Flows that come before the filler flows in a padded trace.
PaddedFlows == 2

\* Filler flows of a padded capture: more than unmatched_sessions keeps.
PadLen == 51

\* Start of the first flow of a capture and the distances between the starts of
\* two flows that follow one another, in milliseconds.
BaseTime == 3000
Spacings == {0, 50, 600}

\* A payload of MIN_PAYLOAD bytes, all of value b.
Payload(b) == [i \in 1..MIN_PAYLOAD |-> b]

Flow(src_ip, src_port, dst_ip, dst_port, payload, request_id, xff, frames) ==
    [ src_ip |-> src_ip, src_port |-> src_port, dst_ip |-> dst_ip, dst_port |-> dst_port,
      payload |-> payload, request_id |-> request_id, xff |-> xff, frames |-> frames ]

\* The TCP flows a capture is made of: a client A, proxies B and C, a server D.
\* frames are the frame lengths of the flow; the odd frames travel from the
\* source. The last two flows carry no payload and are told by their timing.
FlowKinds ==
    { Flow("A", 1, "B", 80, Payload(1), "r1", "", <<100, 200>>),
      Flow("B", 2, "C", 80, Payload(1), "r1", "", <<100, 200>>),
      Flow("B", 2, "C", 80, Payload(1), "", "A", <<100, 200>>),
      Flow("C", 3, "D", 80, Payload(2), "r1", "", <<100>>),
      Flow("A", 1, "B", 80, <<>>, "", "", <<100, 200, 100>>),
      Flow("B", 1, "C", 80, <<>>, "", "", <<100, 200, 900>>) }

\* A flow between two hosts that take no part in the proxied request.
FillerFlow == Flow("G", 9, "H", 80, <<>>, "", "", <<100>>)

\* Milliseconds between two frames of a flow.
FrameGap == 20

\* The rows the dissector prints for the flow with stream number n that starts at
\* time t. The first frame carries the payload; it is an HTTP request when it has
\* a correlation header.
FlowRows(flow, n, t) ==
    [ k \in 1..Len(flow.frames) |->
        [ stream |-> Digits(n),
          ip_src |-> IF k % 2 = 1 THEN flow.src_ip ELSE flow.dst_ip,
          ip_dst |-> IF k % 2 = 1 THEN flow.dst_ip ELSE flow.src_ip,
          srcport |-> Digits(IF k % 2 = 1 THEN flow.src_port ELSE flow.dst_port),
          dstport |-> Digits(IF k % 2 = 1 THEN flow.dst_port ELSE flow.src_port),
          time_epoch |-> Digits(t + (k - 1) * FrameGap),
          len |-> Digits(flow.frames[k]),
          payload |-> IF k = 1 THEN flow.payload ELSE <<>>,
          is_http |-> k = 1 /\ (flow.request_id # "" \/ flow.xff # ""),
          http_xff |-> IF k = 1 THEN flow.xff ELSE "",
          header_lines |->
            IF k = 1
            THEN [NoHeaders EXCEPT !["x-request-id"] = flow.request_id,
                                   !["x-forwarded-for"] = flow.xff]
            ELSE NoHeaders ] ]

\* The capture of a list of flows: flow i has stream number i - 1 and starts
\* first + (i - 1) * spacing after BaseTime; the rows are in time order.
Capture(flows, first, spacing) ==
    LET rows == Flatten([i \in 1..Len(flows) |->
                    FlowRows(flows[i], i - 1, BaseTime + (first + i - 1) * spacing)])
    IN SortByKey(rows, [k \in 1..Len(rows) |-> ParseFloat(rows[k].time_epoch)])

FlowLists(n) == UNION { [1..k -> FlowKinds] : k \in 0..n }

Padding == [i \in 1..PadLen |-> FillerFlow]

\* The flow lists of the captures trace_single_file reads: the short lists, and
\* PaddedFlows flows followed by the fillers.
SingleInputs ==
    FlowLists(MaxFlows) \cup {flows \o Padding : flows \in [1..PaddedFlows -> FlowKinds]}

\* The pairs of flow lists of the captures trace_multi_file reads: a short list
\* cut in two at any point, and a padded list cut after its first flow.
MultiInputs ==
    UNION { { <<SubSeq(flows, 1, k), SubSeq(flows, k + 1, Len(flows))>> :
                k \in 0..Len(flows) } : flows \in FlowLists(MaxMultiFlows) }
    \cup { <<SubSeq(flows, 1, 1), SubSeq(flows, 2, Len(flows)) \o Padding>> :
                flows \in [1..PaddedFlows -> FlowKinds] }

InitTrace ==
    /\ sessions = <<>>
    /\ xstatus = "returned"
    /\ xcause = ""
    /\ nrows = 0
    /\ nstream = 0
    /\ delivered = <<>>
    /\ NoTrace
    /\ NoStream
    /\ NoAggregate

\* The locals of the trace that returned and the dict it returned.
Returned(out, kind) ==
    /\ sessions' = out.sessions
    /\ all_matches' = out.all_matches
    /\ best_matches' = out.best_matches
    /\ chains' = out.chains
    /\ result' = out.result
    /\ chain_counter' = out.chain_counter
    /\ counter_at_call' = chain_counter
    /\ mode' = kind
    /\ tstatus' = "returned"
    /\ UNCHANGED <<xstatus, xcause, nrows, nstream, delivered, stream_vars, agg_vars>>

\* trace_single_file(filepath) on the capture of a flow list; available is
\* tshark.is_available().
TraceSingleFile(flows, spacing, available) ==
    /\ tstatus = "idle"
    /\ \E out \in trace_single_file(Capture(flows, 0, spacing), available, chain_counter) :
          Returned(out, "single")

\* trace_multi_file(file1, file2) on the captures of two flow lists, taken at two
\* points of the same path: the flows of file2 start after those of file1.
TraceMultiFile(flows1, flows2, spacing, available) ==
    /\ tstatus = "idle"
    /\ \E out \in trace_multi_file(Capture(flows1, 0, spacing),
                                   Capture(flows2, Len(flows1), spacing),
                                   available, chain_counter) :
          Returned(out, "multi")

\* The caller has taken the result: the locals are gone, the counter stays.
TakeResult ==
    /\ tstatus = "returned"
    /\ tstatus' = "idle"
    /\ mode' = ""
    /\ counter_at_call' = 0
    /\ sessions' = <<>>
    /\ all_matches' = <<>>
    /\ best_matches' = <<>>
    /\ chains' = <<>>
    /\ result' = <<>>
    /\ UNCHANGED <<chain_counter, xstatus, xcause, nrows, nstream, delivered, stream_vars, agg_vars>>

\* Without the dissector no row is read, whatever the capture holds: the call is
\* taken on the empty capture.
NextTrace ==
    \/ \E flows \in SingleInputs, spacing \in Spacings :
          TraceSingleFile(flows, spacing, TRUE)
    \/ TraceSingleFile(<<>>, 0, FALSE)
    \/ \E pair \in MultiInputs, spacing \in Spacings :
          TraceMultiFile(pair[1], pair[2], spacing, TRUE)
    \/ TraceMultiFile(<<>>, <<>>, 0, FALSE)
    \/ TakeResult

SpecTrace == InitTrace /\ [][NextTrace]_vars

---------------------------------------------------------------------------
(* SpecMatch: one call of a pairwise matcher on a list of two sessions. The    *)
(* matcher called is kept in mode and the list it returned in all_matches.     *)

\* The start of the second session relative to the first, in ms: before it, with
\* it, and on both sides of MIN_TIME_DIFF, TIME_WINDOW and 2 * TIME_WINDOW.
MatchOffsets == {0 - 1, 0, 1, 500, 501, 1000, 1001}

\* Frame sizes of the first session: eleven frames, or two.
FirstSizes == {<<60, 60, 60, 60, 60, 1000, 1000, 1000, 60, 60, 60>>, <<60, 60>>}

\* Frame sizes of the second session: two frames; the eleven frames of the
\* first session; eight frames of which five are within the tolerance (100 bytes,
\* or a fifth of the larger size); five frames of which three are; three frames of
\* which two are.
SecondSizes ==
    { <<60, 60>>,
      <<60, 60, 60, 60, 60, 1000, 1000, 1000, 60, 60, 60>>,
      <<160, 160, 161, 161, 161, 1250, 1250, 1250>>,
      <<160, 160, 160, 161, 161>>,
      <<60, 60, 500>> }

\* A session as extraction leaves it after frames of the given sizes, all sent by
\* src_ip at start_time.
MatchSession(stream_id, src_ip, src_port, dst_ip, start_time, fingerprint, sizes) ==
    [ SessionInfo(stream_id, src_ip, src_port, dst_ip, 80, "capture.pcap") EXCEPT
        !.packet_count = Len(sizes),
        !.byte_count = SumOver([k \in 1..Len(sizes) |-> [v |-> sizes[k]]], "v"),
        !.start_time = start_time, !.end_time = start_time,
        !.forward_start = start_time, !.forward_end = start_time,
        !.forward_packets = Len(sizes),
        !.forward_bytes = SumOver([k \in 1..Len(sizes) |-> [v |-> sizes[k]]], "v"),
        !.payload_fingerprint = fingerprint,
        !.packet_sizes = sizes ]

\* The session lists a matcher is called on: A:1 -> B first, then a session of
\* every geometry, offset, fingerprint and size sequence.
MatchInputs ==
    { << MatchSession(<<0>>, "A", 1, "B", BaseTime, fp1, sizes1),
         MatchSession(<<1>>, src, port, dst, BaseTime + offset, fp2, sizes2) >> :
        fp1 \in {<<>>, Payload(1)}, sizes1 \in FirstSizes,
        src \in {"A", "B", "C"}, dst \in {"B", "C"}, port \in {1, 2},
        offset \in MatchOffsets,
        fp2 \in {<<>>, Payload(1), Payload(2)}, sizes2 \in SecondSizes }

InitMatch ==
    /\ sessions \in MatchInputs
    /\ xstatus = "returned"
    /\ xcause = ""
    /\ nrows = 0
    /\ nstream = 0
    /\ delivered = <<>>
    /\ NoTrace
    /\ NoStream
    /\ NoAggregate

\* _match_by_payload_fingerprint(sessions) is called and returns.
CallFingerprintMatcher ==
    /\ tstatus = "idle"
    /\ tstatus' = "matched"
    /\ mode' = "fingerprint"
    /\ all_matches' = WithMethod(match_by_payload_fingerprint(sessions),
                                 "payload_fingerprint")
    /\ UNCHANGED <<chain_counter, counter_at_call, best_matches, chains, result,
                   extract_vars, stream_vars, agg_vars>>

\* _match_by_timing_and_size(sessions) is called and returns.
CallTimingMatcher ==
    /\ tstatus = "idle"
    /\ tstatus' = "matched"
    /\ mode' = "timing"
    /\ all_matches' = WithMethod(match_by_timing_and_size(sessions), "timing_size")
    /\ UNCHANGED <<chain_counter, counter_at_call, best_matches, chains, result,
                   extract_vars, stream_vars, agg_vars>>

NextMatch ==
    \/ CallFingerprintMatcher
    \/ CallTimingMatcher

SpecMatch == InitMatch /\ [][NextMatch]_vars

---------------------------------------------------------------------------
(* SpecStream: one iteration of TsharkManager.stream_fields after another,    *)
(* each by one of the three shapes of consumer in the package, on the         *)
(* reference-counting interpreter the package runs on                          *)

\* Rows a child's output holds and rows a page asks for.
MaxStreamRows == 3
MaxWant == 2

\* The shapes of the consumers: a for loop inside try/except Exception
\* (_extract_sessions, line 136), a for loop with no handler around it
\* (analyze_security, line 560) and get_tcp_stream_packets, which keeps the
\* generator in a local and calls next() on it.
Consumers == {"guarded_loop", "bare_loop", "pager"}

\* proc.kill(): Popen polls the child first; a child that has exited is reaped by
\* the poll and gets no signal, a running child gets SIGKILL.
Kill(c) ==
    IF c = "running" THEN "killed"
    ELSE IF c = "exited" THEN "reaped"
    ELSE c

\* proc.wait(): returns when the child has ended and has been reaped.
Wait(c) == IF c \in {"running", "exited", "killed"} THEN "reaped" ELSE c

\* A finally clause that stops after proc.kill().
KillOnly(c) == [child |-> Kill(c), calls |-> <<"kill">>]

\* The finally clause of stream_fields: proc.kill(), then proc.wait().
Finally(c) == [child |-> Wait(Kill(c)), calls |-> <<"kill", "wait">>]

\* subprocess.Popen at the first resumption of the generator (line 122).
Spawned(g, c) == IF g = "created" THEN "running" ELSE c

\* The last reference to the generator goes away (the for loop's stack entry is
\* popped while an exception unwinds, the frame's locals are cleared at return):
\* the interpreter closes the generator at once. A generator suspended at the
\* yield gets GeneratorExit there and runs its finally clause; one that was never
\* resumed has spawned nothing.
Dropped(g, c) ==
    IF g = "suspended" THEN Finally(c) ELSE [child |-> c, calls |-> <<>>]

\* What an exception that reaches the consumer's frame does to the consumer: the
\* except clause of the guarded loop and of the pager catches it and the function
\* returns; the bare loop lets it through to the caller.
AfterException(kind) == IF kind = "bare_loop" THEN "raised" ELSE "returned"

NoExtract ==
    /\ sessions = <<>>
    /\ xstatus = "returned"
    /\ xcause = ""
    /\ nrows = 0
    /\ nstream = 0
    /\ delivered = <<>>

InitStream ==
    /\ NoExtract
    /\ NoTrace
    /\ NoStream
    /\ NoAggregate

\* The consumer is at a point where it resumes the generator.
Iterating ==
    /\ control = "consumer"
    /\ gen \in {"created", "suspended"}
    /\ consumer = "pager" => taken < want

\* The consumer has ended: control is back in its caller.
Ended(fin, how) ==
    /\ gen' = "closed"
    /\ child' = fin.child
    /\ proc_calls' = fin.calls
    /\ ref' = "none"
    /\ control' = "caller"
    /\ outcome' = how
    /\ UNCHANGED <<consumer, pending, taken, want, extract_vars, trace_vars, agg_vars>>

\* The caller calls a consumer, which calls stream_fields: a generator object
\* that has not run yet. n rows are what the child would print.
CallConsumer(kind, n, w) ==
    /\ control = "caller"
    /\ gen = "none"
    /\ consumer' = kind
    /\ gen' = "created"
    /\ ref' = IF kind = "pager" THEN "local" ELSE "stack"
    /\ pending' = n
    /\ taken' = 0
    /\ want' = IF kind = "pager" THEN w ELSE 0
    /\ control' = "consumer"
    /\ outcome' = ""
    /\ child' = "none"
    /\ proc_calls' = <<>>
    /\ UNCHANGED <<extract_vars, trace_vars, agg_vars>>

\* The first resumption fails before the try statement: tshark is not available
\* (line 95) or Popen raises (line 122). No child exists.
SpawnFails ==
    /\ Iterating
    /\ gen = "created"
    /\ Ended([child |-> "none", calls |-> <<>>], AfterException(consumer))

\* The generator is resumed and yields the next row (lines 122-127).
NextRow ==
    /\ Iterating
    /\ pending > 0
    /\ gen' = "suspended"
    /\ child' = Spawned(gen, child)
    /\ pending' = pending - 1
    /\ taken' = taken + 1
    /\ UNCHANGED <<proc_calls, consumer, control, ref, want, outcome,
                   extract_vars, trace_vars, agg_vars>>

\* The generator is resumed and the reader finds the end of the output: the
\* finally clause runs, the generator finishes, the loop ends and the consumer
\* returns.
NextExhausted ==
    /\ Iterating
    /\ pending = 0
    /\ Ended(Finally(Spawned(gen, child)), "returned")

\* The generator is resumed and the reader raises (malformed CSV, undecodable
\* bytes): the finally clause runs and the exception reaches the consumer.
NextFails ==
    /\ Iterating
    /\ Ended(Finally(Spawned(gen, child)), AfterException(consumer))

\* The body of a for loop raises on the row it was given: the exception leaves
\* the loop and the generator, suspended at the yield, is dropped.
BodyRaises ==
    /\ control = "consumer"
    /\ consumer \in {"guarded_loop", "bare_loop"}
    /\ gen = "suspended"
    /\ Ended(Dropped(gen, child), AfterException(consumer))

\* get_tcp_stream_packets has its page and returns (line 877): its local
\* iterator is dropped with the frame, with rows unread or never resumed.
PagerReturns ==
    /\ control = "consumer"
    /\ consumer = "pager"
    /\ gen \in {"created", "suspended"}
    /\ taken = want
    /\ Ended(Dropped(gen, child), "returned")

\* The child ends by itself, having printed all or part of its rows.
ChildExits ==
    /\ child = "running"
    /\ child' = "exited"
    /\ \E left \in 0..pending : pending' = left
    /\ UNCHANGED <<gen, proc_calls, consumer, control, ref, taken, want, outcome,
                   extract_vars, trace_vars, agg_vars>>

\* The caller goes on; the next call starts afresh.
CallerResumes ==
    /\ control = "caller"
    /\ gen = "closed"
    /\ gen' = "none"
    /\ child' = "none"
    /\ proc_calls' = <<>>
    /\ consumer' = ""
    /\ pending' = 0
    /\ taken' = 0
    /\ want' = 0
    /\ outcome' = ""
    /\ UNCHANGED <<control, ref, extract_vars, trace_vars, agg_vars>>

NextStream ==
    \/ \E kind \in Consumers, n \in 0..MaxStreamRows, w \in 0..MaxWant :
          CallConsumer(kind, n, w)
    \/ SpawnFails
    \/ NextRow
    \/ NextExhausted
    \/ NextFails
    \/ BodyRaises
    \/ PagerReturns
    \/ ChildExits
    \/ CallerResumes

SpecStream == InitStream /\ [][NextStream]_vars

---------------------------------------------------------------------------
(* SpecAggregate: the row loops of PcapAnalyzer.analyze_tcp_sessions,         *)
(* PcapAnalyzer.analyze_security and LinkTracer._extract_hop_packets, a row   *)
(* at a time, up to the return or the exception that reaches the caller       *)

\* Rows one aggregator call is given.
MaxAggRows == 3

\* Payload bytes of a row: none, half a segment, a full segment.
PayloadSizes == {0, 700, 1460}

\* len(s["payload_hex"]) < 4000 (analyzer.py line 744).
PAYLOAD_HEX_LIMIT == 4000

\* The rows the dissector may deliver to an aggregator. payload is the number of
\* bytes of tcp.payload, printed as "aa:bb:..."; an empty text is an empty field.
AggRows ==
    { [stream |-> st, ip_src |-> ip, srcport |-> pt, len |-> ln, time |-> ts,
       time_epoch |-> ts, payload |-> pl] :
        st \in {<<>>, <<0>>, <<1>>},
        ip \in {"A", "B"},
        pt \in {<<8, 0>>, NotANumber},
        ln \in {<<6, 0>>, <<>>},
        ts \in {<<1>>, <<>>},
        pl \in PayloadSizes }

Aggregators == {"analyze_tcp_sessions", "analyze_security", "_extract_hop_packets"}

\* len(payload.replace(":", "")): two hex characters a byte.
HexLength(payload) == 2 * payload

\* The defaultdict entry of a stream (analyzer.py lines 698-712); start_time and
\* end_time are <<>> for None.
NewTcpEntry(stream_id) ==
    [session_id |-> stream_id, src |-> "", sport |-> <<>>, packet_count |-> 0,
     bytes |-> 0, start_time |-> <<>>, end_time |-> <<>>, payload_hex |-> 0]

\* Lines 717-753 of analyze_tcp_sessions on one row: the table after the row, up
\* to the statement that raised if one did. payload_hex is the length of the
\* accumulated string.
TcpSessionsRow(table, row) ==
    IF row.stream = <<>> THEN [acc |-> table, raised |-> FALSE]
    ELSE
      LET at == SessionIndex(table, row.stream)
          t0 == IF at = 0 THEN Append(table, NewTcpEntry(row.stream)) ELSE table
          i == IF at = 0 THEN Len(t0) ELSE at
          s0 == t0[i]
          s1 == IF s0.src = ""
                THEN [s0 EXCEPT !.src = row.ip_src, !.sport = row.srcport]
                ELSE s0
          s2 == [s1 EXCEPT !.packet_count = @ + 1]
          s3 == [s2 EXCEPT !.bytes = @ + ParseInt(row.len)]
          ts == ParseFloat(row.time)
          s4 == IF ParseOk(row.time)
                THEN [s3 EXCEPT
                        !.start_time = IF @ = <<>> \/ ts < @[1] THEN <<ts>> ELSE @,
                        !.end_time = IF @ = <<>> \/ ts > @[1] THEN <<ts>> ELSE @]
                ELSE s3
          s5 == IF row.payload > 0 /\ s4.payload_hex < PAYLOAD_HEX_LIMIT
                THEN [s4 EXCEPT !.payload_hex = @ + HexLength(row.payload)]
                ELSE s4
      IN IF ~ParseOk(row.len)
         THEN [acc |-> [t0 EXCEPT ![i] = s2], raised |-> TRUE]
         ELSE [acc |-> [t0 EXCEPT ![i] = s5], raised |-> FALSE]

\* Lines 755-803: the result built from the table, or the ValueError of
\* int(data["sport"] or 0) on a port that is not a number.
TcpSessionsResult(table) ==
    LET bad == \E i \in 1..Len(table) :
                   table[i].sport # <<>> /\ ~ParseOk(table[i].sport)
        results == [i \in 1..Len(table) |->
                      [session_id |-> table[i].session_id,
                       src_port |-> ParseInt(table[i].sport),
                       packet_count |-> table[i].packet_count,
                       byte_count |-> table[i].bytes]]
        sorted == SortByKey(results,
                            [i \in 1..Len(table) |-> 0 - table[i].packet_count])
    IN IF bad THEN [acc |-> table, raised |-> TRUE]
       ELSE [acc |-> [tcp_sessions |-> Truncate(sorted, 50),
                      total_sessions |-> Len(table)],
             raised |-> FALSE]

\* The two loops of analyze_security (lines 560-568 and 600-662) on one row:
\* neither converts a number nor lets a bad payload through, so no row raises.
\* syn_tracker and the alerts are kept as the rows counted into each.
SecurityRow(state, row) ==
    IF state.phase = "syn"
    THEN [acc |-> IF row.srcport # <<>> THEN [state EXCEPT !.tracked = @ + 1] ELSE state,
          raised |-> FALSE]
    ELSE [acc |-> IF row.payload > 0 THEN [state EXCEPT !.scanned = @ + 1] ELSE state,
          raised |-> FALSE]

\* The locals of _extract_hop_packets before the first row (lines 320-322), for
\* the hop of the given direction of a session whose src_ip is given.
HopLocals(src_ip, direction) ==
    [packets |-> <<>>, first_time |-> 0, seq_counter |-> 0,
     src_ip |-> src_ip, direction |-> direction, ended |-> ""]

\* Lines 329-360 of _extract_hop_packets on one row: a row of the other direction
\* is skipped; float() of frame.time_epoch and int() of frame.len and tcp.srcport
\* raise on a field that is not a number; first_time is set while it is 0.
HopPacketsRow(state, row) ==
    LET is_forward == row.ip_src = state.src_ip
        counted == [state EXCEPT !.seq_counter = @ + 1]
        t == ParseFloat(row.time_epoch)
        timed == [counted EXCEPT !.first_time = IF @ = 0 THEN t ELSE @]
    IN IF \/ state.direction = "request" /\ ~is_forward
          \/ state.direction = "response" /\ is_forward
       THEN [acc |-> state, raised |-> FALSE]
       ELSE IF ~ParseOk(row.time_epoch) THEN [acc |-> counted, raised |-> TRUE]
       ELSE IF ~ParseOk(row.len) \/ ~ParseOk(row.srcport)
       THEN [acc |-> timed, raised |-> TRUE]
       ELSE [acc |-> [timed EXCEPT !.packets = Append(@,
                         [seq |-> timed.seq_counter,
                          time_epoch |-> t,
                          relative_time_ms |-> (t - timed.first_time) * 1000,
                          size |-> ParseInt(row.len),
                          src_port |-> ParseInt(row.srcport)])],
             raised |-> FALSE]

\* Whether the aggregator has an except clause around its row loop:
\* _extract_hop_packets has (lines 324, 361), the two analyzer methods have none.
CatchesAll(f) == f = "_extract_hop_packets"

\* The locals of an aggregator before the first row.
InitialAcc(f) ==
    IF f = "analyze_security" THEN [phase |-> "syn", tracked |-> 0, scanned |-> 0]
    ELSE IF f = "_extract_hop_packets" THEN HopLocals("A", "request")
    ELSE <<>>

InitAggregate ==
    /\ NoExtract
    /\ NoTrace
    /\ NoStream
    /\ NoAggregate

\* The caller calls the aggregator; tshark is available.
CallAggregator(f) ==
    /\ astatus = "idle"
    /\ afunc' = f
    /\ astatus' = "reading"
    /\ acc' = InitialAcc(f)
    /\ arows' = 0
    /\ UNCHANGED <<extract_vars, trace_vars, stream_vars>>

\* The generator yields a row and the loop body runs on it. An exception of the
\* body ends the loop: it is caught and the partial result returned, or it goes
\* through to the caller.
AggRow(row) ==
    /\ astatus = "reading"
    /\ arows < MaxAggRows
    /\ LET r == IF afunc = "analyze_tcp_sessions" THEN TcpSessionsRow(acc, row)
                ELSE IF afunc = "analyze_security" THEN SecurityRow(acc, row)
                ELSE HopPacketsRow(acc, row)
       IN /\ acc' = r.acc
          /\ astatus' = IF ~r.raised THEN "reading"
                        ELSE IF CatchesAll(afunc) THEN "returned" ELSE "raised"
    /\ arows' = arows + 1
    /\ UNCHANGED <<afunc, extract_vars, trace_vars, stream_vars>>

\* The generator raises between two rows (the field stream fails).
AggStreamFail ==
    /\ astatus = "reading"
    /\ astatus' = IF CatchesAll(afunc) THEN "returned" ELSE "raised"
    /\ UNCHANGED <<afunc, acc, arows, extract_vars, trace_vars, stream_vars>>

\* The rows are exhausted: analyze_security goes on to its second loop or
\* returns, analyze_tcp_sessions builds its result, _extract_hop_packets returns.
AggStreamEnd ==
    /\ astatus = "reading"
    /\ LET r == IF afunc = "analyze_tcp_sessions" THEN TcpSessionsResult(acc)
                ELSE [acc |-> acc, raised |-> FALSE]
       IN IF afunc = "analyze_security" /\ acc.phase = "syn"
          THEN /\ acc' = [acc EXCEPT !.phase = "payload"]
               /\ astatus' = "reading"
          ELSE /\ acc' = r.acc
               /\ astatus' = IF r.raised THEN "raised" ELSE "returned"
    /\ UNCHANGED <<afunc, arows, extract_vars, trace_vars, stream_vars>>

\* The caller has the result or the exception.
AggDone ==
    /\ astatus \in {"returned", "raised"}
    /\ afunc' = ""
    /\ astatus' = "idle"
    /\ acc' = <<>>
    /\ arows' = 0
    /\ UNCHANGED <<extract_vars, trace_vars, stream_vars>>

NextAggregate ==
    \/ \E f \in Aggregators : CallAggregator(f)
    \/ \E row \in AggRows : AggRow(row)
    \/ AggStreamFail
    \/ AggStreamEnd
    \/ AggDone

SpecAggregate == InitAggregate /\ [][NextAggregate]_vars

---------------------------------------------------------------------------
(* Claims about the session extractor *)

\* C1: every session _extract_sessions returns has
\* packet_count = forward_packets + backward_packets and
\* byte_count = forward_bytes + backward_bytes, whatever rows were consumed
\* (rows with an unparsable frame.time_epoch and a stream that fails included).
C1_CountsSplitByDirection ==
    xstatus = "returned" =>
        \A i \in 1..Len(sessions) :
            /\ sessions[i].packet_count =
                   sessions[i].forward_packets + sessions[i].backward_packets
            /\ sessions[i].byte_count =
                   sessions[i].forward_bytes + sessions[i].backward_bytes

\* C2: every returned session has start_time <= forward_start <= forward_end <=
\* end_time, and with at least one backward packet also
\* start_time <= backward_start <= backward_end <= end_time, for timestamps in any
\* order with the value 0 among them.
C2_TimeBoundsNested ==
    xstatus = "returned" =>
        \A i \in 1..Len(sessions) :
            LET s == sessions[i]
            IN /\ s.start_time <= s.forward_start
               /\ s.forward_start <= s.forward_end
               /\ s.forward_end <= s.end_time
               /\ s.backward_packets >= 1 =>
                      /\ s.start_time <= s.backward_start
                      /\ s.backward_start <= s.backward_end
                      /\ s.backward_end <= s.end_time

\* C3: a field that does not parse never ends the row loop, and when the rows are
\* exhausted the packet counts of the returned sessions add up to the number of
\* rows delivered with a non-empty tcp.stream.
C3_ParseErrorsSwallowed ==
    /\ xcause # "row_error"
    /\ (xstatus = "returned" /\ xcause = "exhausted") =>
           SumOver(sessions, "packet_count") = nstream

---------------------------------------------------------------------------
(* Claims about the traces *)

\* C4: after the deduplication of a trace (single-file or two-file) every
\* unordered pair of sessions is in at most one retained edge, every pair with a
\* candidate has a retained edge, and the retained edge is the earliest of the
\* candidates of its pair that have the greatest confidence.
C4_DedupeKeepsBestPerPair ==
    tstatus = "returned" =>
        LET PairOf(m) == {m.a, m.b}
            Same(m) == {k \in 1..Len(all_matches) : PairOf(all_matches[k]) = PairOf(m)}
            Top(m) == {k \in Same(m) :
                          \A o \in Same(m) : all_matches[o].conf <= all_matches[k].conf}
        IN /\ \A i, j \in 1..Len(best_matches) :
                  i # j => PairOf(best_matches[i]) # PairOf(best_matches[j])
           /\ \A k \in 1..Len(all_matches) :
                  \E i \in 1..Len(best_matches) :
                      PairOf(best_matches[i]) = PairOf(all_matches[k])
           /\ \A i \in 1..Len(best_matches) :
                  /\ Top(best_matches[i]) # {}
                  /\ best_matches[i] =
                         all_matches[CHOOSE k \in Top(best_matches[i]) :
                                        \A o \in Top(best_matches[i]) : k <= o]

\* A trace has returned in which two different candidates of one pair share the
\* greatest confidence of the pair.
C4_TieWitness ==
    /\ tstatus = "returned"
    /\ \E k1, k2 \in 1..Len(all_matches) :
          /\ k1 < k2
          /\ {all_matches[k1].a, all_matches[k1].b} = {all_matches[k2].a, all_matches[k2].b}
          /\ all_matches[k1].conf = all_matches[k2].conf
          /\ all_matches[k1].method # all_matches[k2].method
          /\ \E i \in 1..Len(best_matches) :
                /\ {best_matches[i].a, best_matches[i].b}
                       = {all_matches[k1].a, all_matches[k1].b}
                /\ best_matches[i].conf = all_matches[k1].conf

\* C5: every chain _build_chains emits has at least two members, all different, in
\* the order of their start_time, and every two consecutive members are a direct
\* proxy pair (prev.dst_ip = next.src_ip) or a port-preserved pair (equal src_port,
\* different src_ip).
C5_ChainsAreValidHopSequences ==
    tstatus = "returned" =>
        \A c \in 1..Len(chains) :
            LET m == chains[c].members
            IN /\ Len(m) >= 2
               /\ \A i, j \in 1..Len(m) : i # j => m[i] # m[j]
               /\ \A i \in 1..(Len(m) - 1) :
                     LET prev == sessions[m[i]]
                         next == sessions[m[i + 1]]
                     IN /\ prev.start_time <= next.start_time
                        /\ \/ prev.dst_ip = next.src_ip
                           \/ (prev.src_port = next.src_port /\ prev.src_ip # next.src_ip)

\* A trace has returned a chain that is a proper part of its union-find
\* component: a retained edge joins a member of the chain to a session that the
\* split has cut off.
C5_SplitWitness ==
    /\ tstatus = "returned"
    /\ \E c \in 1..Len(chains), k \in 1..Len(best_matches) :
          LET inside == {chains[c].members[i] : i \in 1..Len(chains[c].members)}
          IN /\ {best_matches[k].a, best_matches[k].b} \cap inside # {}
             /\ {best_matches[k].a, best_matches[k].b} \ inside # {}

\* C6: in every chain of a returned result the hops are, as a multiset of
\* (file, session_id, direction), one request and one response per member of the
\* chain, so the chain has twice as many hops as members, however the sort by
\* start_time has ordered them.
C6_TwoHopsPerMember ==
    tstatus = "returned" =>
        /\ Len(result.chains) = Len(chains)
        /\ \A c \in 1..Len(chains) :
              LET m == chains[c].members
                  hops == result.chains[c].hops
                  HopsLike(s, d) == {h \in 1..Len(hops) :
                                        /\ hops[h].session_id = s.session_id
                                        /\ hops[h].file = s.file_source
                                        /\ hops[h].direction = d}
                  MembersLike(s) == {i \in 1..Len(m) :
                                        /\ sessions[m[i]].session_id = s.session_id
                                        /\ sessions[m[i]].file_source = s.file_source}
              IN /\ Len(hops) = 2 * Len(m)
                 /\ \A h \in 1..Len(hops) :
                        /\ hops[h].direction \in {"request", "response"}
                        /\ \E i \in 1..Len(m) :
                              /\ sessions[m[i]].session_id = hops[h].session_id
                              /\ sessions[m[i]].file_source = hops[h].file
                 /\ \A i \in 1..Len(m) : \A d \in {"request", "response"} :
                        Cardinality(HopsLike(sessions[m[i]], d))
                            = Cardinality(MembersLike(sessions[m[i]]))

\* A trace has returned a chain of three members whose hops the sort has moved:
\* the second hop is a request, and the last hop is one without packets.
C6_ResortedWitness ==
    /\ tstatus = "returned"
    /\ \E c \in 1..Len(chains) :
          /\ Len(chains[c].members) = 3
          /\ result.chains[c].hops[2].direction = "request"
          /\ result.chains[c].hops[Len(result.chains[c].hops)].missing

\* C7: the confidence of every chain is the mean, rounded to two decimals, of the
\* confidences of its consecutive pairs of members, where a pair takes the
\* confidence of the retained edge between the two sessions (in either
\* orientation) and 0.5 when there is none; it lies in [0, 1]; and the method is
\* payload_fingerprint, http_header, timing_size or inferred, or
\* http_header:<name> in a two-file trace.
C7_ConfidenceIsRoundedMean ==
    tstatus = "returned" =>
        \A c \in 1..Len(chains) :
            LET m == chains[c].members
                n == Len(m) - 1
                Stored(i) == {k \in 1..Len(best_matches) :
                                 {best_matches[k].a, best_matches[k].b} = {m[i], m[i + 1]}}
                PairConf(i) == IF Stored(i) = {} THEN ConfOne \div 2
                               ELSE best_matches[CHOOSE k \in Stored(i) : TRUE].conf
                total[i \in 0..n] == IF i = 0 THEN 0 ELSE total[i - 1] + PairConf(i)
                hundredths == chains[c].confidence
            IN /\ n >= 1
               /\ hundredths \in 0..100
               /\ 2 * hundredths * ConfOne * n - 200 * total[n] <= ConfOne * n
               /\ 200 * total[n] - 2 * hundredths * ConfOne * n <= ConfOne * n
               /\ result.chains[c].confidence = hundredths
               /\ chains[c].method \in
                     {"payload_fingerprint", "http_header", "timing_size", "inferred"}
                     \cup (IF mode = "multi"
                           THEN {"http_header:x-request-id",
                                 "http_header:x-correlation-id",
                                 "http_header:x-trace-id"}
                           ELSE {})

\* A trace has returned a chain with two consecutive members that no retained
\* edge joins.
C7_InferredWitness ==
    /\ tstatus = "returned"
    /\ \E c \in 1..Len(chains) :
          \E i \in 1..(Len(chains[c].members) - 1) :
              \A k \in 1..Len(best_matches) :
                  {best_matches[k].a, best_matches[k].b}
                      # {chains[c].members[i], chains[c].members[i + 1]}

\* C8: in every returned result, whatever traces came before on the same tracer,
\* the chain ids are pairwise different and are chain_001 ... chain_N for the N
\* chains of the result.
C8_ChainIdsRestart ==
    tstatus = "returned" =>
        LET n == Len(result.chains)
            ids == {result.chains[c].chain_id : c \in 1..n}
        IN /\ ids = {<<"chain_", <<k \div 100, (k \div 10) % 10, k % 10>>>> : k \in 1..n}
           /\ \A c, d \in 1..n :
                  c # d => result.chains[c].chain_id # result.chains[d].chain_id

\* A trace has returned two chains on a tracer whose counter was not zero when
\* the trace began.
C8_SecondTraceWitness ==
    /\ tstatus = "returned"
    /\ counter_at_call > 0
    /\ Len(result.chains) = 2

\* C9: in every returned result no entry of unmatched_sessions is a session of a
\* hop of a chain, every entry is an extracted session, there are at most 50
\* entries, and they are the first 50 (or all) of the extracted sessions that are
\* in no chain, in extraction order. A session is told by its id in a single-file
\* trace and by its file and id in a two-file trace.
C9_UnmatchedExcludesChained ==
    tstatus = "returned" =>
        LET listed == result.unmatched_sessions
            hops == UNION { {result.chains[c].hops[h] :
                                h \in 1..Len(result.chains[c].hops)} :
                            c \in 1..Len(result.chains) }
            Chained(sid, file) ==
                \E h \in hops :
                    h.session_id = sid /\ (mode = "multi" => h.file = file)
            FileOf(e) == IF mode = "multi" THEN e.file ELSE "capture.pcap"
            free == SelectSeq(sessions, LAMBDA x : ~Chained(x.session_id, x.file_source))
        IN /\ Len(listed) <= 50
           /\ \A k \in 1..Len(listed) :
                  /\ ~Chained(listed[k].session_id, FileOf(listed[k]))
                  /\ \E i \in 1..Len(sessions) :
                        /\ sessions[i].session_id = listed[k].session_id
                        /\ sessions[i].file_source = FileOf(listed[k])
           /\ Len(listed) = IF Len(free) < 50 THEN Len(free) ELSE 50
           /\ \A k \in 1..Len(listed) :
                  /\ listed[k].session_id = free[k].session_id
                  /\ FileOf(listed[k]) = free[k].file_source
                  /\ listed[k].packets = free[k].packet_count

\* A trace has returned a chain and left more than 50 of the extracted sessions
\* in no chain.
C9_TruncatedWitness ==
    /\ tstatus = "returned"
    /\ Len(result.chains) >= 1
    /\ Len(result.unmatched_sessions) = 50
    /\ Len(sessions) - result.stats.matched_sessions > 50

\* C10: the stats of every result trace_single_file returns have the four keys
\* total_sessions, matched_chains, matched_sessions and methods_used, the result
\* for a capture without sessions and the result without the dissector included.
C10_StatsHaveFourKeys ==
    (tstatus = "returned" /\ mode = "single") =>
        {"total_sessions", "matched_chains", "matched_sessions", "methods_used"}
            \subseteq DOMAIN result.stats

\* C11: the chains of a single-file trace are a function of the rows read: every
\* other run of _build_chains on the same retained edges that rounds the
\* confidences the same way returns the same chains, with the same members,
\* order, ids, confidences and methods, also when the methods of the edges of a
\* chain tie for the most frequent.
C11_TraceIsDeterministic ==
    (tstatus = "returned" /\ mode = "single") =>
        LET Rounded(b) == [k \in 1..Len(b) |-> <<b[k].members, b[k].confidence>>]
        IN \A other \in build_chains(sessions, best_matches,
                                     CounterAtStart(counter_at_call)) :
               Rounded(other) = Rounded(chains) => other = chains

\* C13 as stated: a single-file trace of three sessions that all carry the same
\* X-Request-Id value and start within 120 ms returns one chain that holds all
\* three, with confidence 0.95, method http_header and six hops.
C13_SharedRequestIdOneChain ==
    ( /\ tstatus = "returned" /\ mode = "single"
      /\ Len(sessions) = 3
      /\ sessions[1].http_headers["x-request-id"] # ""
      /\ \A i \in 1..3 : sessions[i].http_headers["x-request-id"]
                             = sessions[1].http_headers["x-request-id"]
      /\ \A i, j \in 1..3 : sessions[i].start_time - sessions[j].start_time <= 120 )
    => /\ Len(chains) = 1
       /\ {chains[1].members[k] : k \in 1..Len(chains[1].members)} = 1..3
       /\ result.chains[1].confidence = 95
       /\ result.chains[1].method = "http_header"
       /\ Len(result.chains[1].hops) = 6

\* C13 amended: when moreover the three start times differ and each session is a
\* valid next hop (direct proxy, or same source port from another source address)
\* of the session that starts just before it, the trace returns that one chain;
\* and when some session is not a valid next hop of the one before it, no chain
\* holds all three.
C13_SharedRequestIdChainedOneChain ==
    ( /\ tstatus = "returned" /\ mode = "single"
      /\ Len(sessions) = 3
      /\ sessions[1].http_headers["x-request-id"] # ""
      /\ \A i \in 1..3 : sessions[i].http_headers["x-request-id"]
                             = sessions[1].http_headers["x-request-id"]
      /\ \A i, j \in 1..3 : sessions[i].start_time - sessions[j].start_time <= 120
      /\ \A i, j \in 1..3 : i # j => sessions[i].start_time # sessions[j].start_time )
    => LET Follows(i, j) ==
               /\ sessions[i].start_time < sessions[j].start_time
               /\ \A k \in 1..3 : ~ ( /\ sessions[i].start_time < sessions[k].start_time
                                        /\ sessions[k].start_time < sessions[j].start_time )
           ValidHop(i, j) ==
               \/ sessions[i].dst_ip = sessions[j].src_ip
               \/ /\ sessions[i].src_port = sessions[j].src_port
                  /\ sessions[i].src_ip # sessions[j].src_ip
       IN IF \A i, j \in 1..3 : Follows(i, j) => ValidHop(i, j)
          THEN /\ Len(chains) = 1
               /\ {chains[1].members[k] : k \in 1..Len(chains[1].members)} = 1..3
               /\ result.chains[1].confidence = 95
               /\ result.chains[1].method = "http_header"
               /\ Len(result.chains[1].hops) = 6
          ELSE \A c \in 1..Len(chains) : Len(chains[c].members) < 3

\* A trace of three sessions A->B, B->C, C->D that carry the same X-Request-Id and
\* start 50 ms apart has returned.
C13_ProxyPathWitness ==
    /\ tstatus = "returned" /\ mode = "single"
    /\ Len(sessions) = 3
    /\ \A i \in 1..3 : sessions[i].http_headers["x-request-id"] = "r1"
    /\ sessions[1].start_time < sessions[2].start_time
    /\ sessions[2].start_time < sessions[3].start_time
    /\ sessions[3].start_time - sessions[1].start_time <= 120
    /\ sessions[1].dst_ip = sessions[2].src_ip
    /\ sessions[2].dst_ip = sessions[3].src_ip
    /\ Len(result.chains) = 1
    /\ Len(result.chains[1].hops) = 6

C15_NoFingerprintEdgeWithoutFingerprint ==
    tstatus = "returned" =>
        /\ \A k \in 1..Len(all_matches) :
              all_matches[k].method = "payload_fingerprint" =>
                  /\ sessions[all_matches[k].a].payload_fingerprint # <<>>
                  /\ sessions[all_matches[k].b].payload_fingerprint # <<>>
                  /\ sessions[all_matches[k].a].payload_fingerprint
                        = sessions[all_matches[k].b].payload_fingerprint
        /\ \A k \in 1..Len(best_matches) :
              best_matches[k].method = "payload_fingerprint" =>
                  /\ sessions[best_matches[k].a].payload_fingerprint # <<>>
                  /\ sessions[best_matches[k].b].payload_fingerprint # <<>>

\* A two-file trace has returned in which a file1 session and a file2 session,
\* both without fingerprint, are matched by timing and size.
C15_BothEmptyWitness ==
    /\ tstatus = "returned" /\ mode = "multi"
    /\ \E k \in 1..Len(all_matches) :
          /\ sessions[all_matches[k].a].file_source = "file1"
          /\ sessions[all_matches[k].b].file_source = "file2"
          /\ sessions[all_matches[k].a].payload_fingerprint = <<>>
          /\ sessions[all_matches[k].b].payload_fingerprint = <<>>
          /\ all_matches[k].method = "timing_size"

\* C20: the chain list _build_chains returned is in descending order of
\* confidence, and chains of equal confidence are in increasing order of chain_id
\* (their emission order).
C20_ChainsSortedStably ==
    tstatus = "returned" =>
        \A c, d \in 1..Len(chains) :
            c < d =>
                \/ chains[c].confidence > chains[d].confidence
                \/ /\ chains[c].confidence = chains[d].confidence
                   /\ DecimalValue(chains[c].chain_id[2])
                          < DecimalValue(chains[d].chain_id[2])

\* A trace returned two chains of equal confidence.
C20_EqualConfidenceWitness ==
    /\ tstatus = "returned"
    /\ Len(chains) = 2
    /\ chains[1].confidence = chains[2].confidence

---------------------------------------------------------------------------
(* Claims about stream_fields *)

\* C12: whenever control is back in the caller of a consumer of stream_fields,
\* however the iteration ended, no child is running or waiting to be reaped, and a
\* child that was spawned has been killed and then waited for, in that order.
C12_ChildReapedBeforeReturn ==
    (control = "caller" /\ gen = "closed") =>
        /\ child \in {"none", "reaped"}
        /\ child = "reaped" => proc_calls = <<"kill", "wait">>
        /\ child = "none" => taken = 0

\* get_tcp_stream_packets has returned its page while the child, still running,
\* had rows left to print.
C12_DroppedPagerWitness ==
    /\ control = "caller"
    /\ consumer = "pager"
    /\ outcome = "returned"
    /\ taken = want
    /\ taken > 0
    /\ pending > 0
    /\ child = "reaped"

---------------------------------------------------------------------------
(* SpecHops: _extract_sessions has read a capture of one stream, and           *)
(* _build_chains lists the packets of one hop of its session by reading the    *)
(* capture again. delivered holds the rows of the capture.                     *)

\* Rows of the capture.
MaxHopRows == 3

\* The rows of a capture of stream 0 between A and B: either host sends, the
\* timestamp is 0, 1, 2 or not a number, frame.len is 60 or empty.
HopRows ==
    { [stream |-> <<0>>, ip_src |-> ip[1], ip_dst |-> ip[2],
       srcport |-> <<8, 0>>, dstport |-> <<8, 0>>,
       time_epoch |-> ts, len |-> ln, payload |-> <<>>] :
        ip \in {<<"A", "B">>, <<"B", "A">>},
        ts \in {<<0>>, <<1>>, <<2>>, <<>>},
        ln \in {<<6, 0>>, <<>>} }

\* The captures: every list of at most MaxHopRows rows.
HopCaptures ==
    UNION { [1..n -> HopRows] : n \in 0..MaxHopRows }

InitHops ==
    /\ delivered \in HopCaptures
    /\ sessions = FirstPass(<<>>, delivered, "capture.pcap")
    /\ xstatus = "returned"
    /\ xcause = ""
    /\ nrows = 0
    /\ nstream = 0
    /\ NoTrace
    /\ NoStream
    /\ NoAggregate

\* Lines 672-683 and 703-717 of _build_chains: the packets of a hop are listed
\* when the session has packets in that direction.
CallHopPackets(direction) ==
    /\ astatus = "idle"
    /\ Len(sessions) = 1
    /\ IF direction = "request" THEN sessions[1].forward_packets > 0
       ELSE sessions[1].backward_packets > 0
    /\ afunc' = "_extract_hop_packets"
    /\ astatus' = "reading"
    /\ acc' = HopLocals(sessions[1].src_ip, direction)
    /\ arows' = 0
    /\ UNCHANGED <<extract_vars, trace_vars, stream_vars>>

\* The generator yields the next row of the capture and the loop body runs on
\* it; an exception of the body is caught at line 361 and the list returned.
HopRow ==
    /\ astatus = "reading"
    /\ arows < Len(delivered)
    /\ LET r == HopPacketsRow(acc, delivered[arows + 1])
       IN /\ acc' = [r.acc EXCEPT !.ended = IF r.raised THEN "row_error" ELSE ""]
          /\ astatus' = IF r.raised THEN "returned" ELSE "reading"
    /\ arows' = arows + 1
    /\ UNCHANGED <<afunc, extract_vars, trace_vars, stream_vars>>

\* The rows are exhausted and the list is returned.
HopStreamEnd ==
    /\ astatus = "reading"
    /\ arows = Len(delivered)
    /\ acc' = [acc EXCEPT !.ended = "exhausted"]
    /\ astatus' = "returned"
    /\ UNCHANGED <<afunc, arows, extract_vars, trace_vars, stream_vars>>

\* The generator raises between two rows: the list read so far is returned.
HopStreamFail ==
    /\ astatus = "reading"
    /\ acc' = [acc EXCEPT !.ended = "stream_failure"]
    /\ astatus' = "returned"
    /\ UNCHANGED <<afunc, arows, extract_vars, trace_vars, stream_vars>>

NextHops ==
    \/ \E direction \in {"request", "response"} : CallHopPackets(direction)
    \/ HopRow
    \/ HopStreamEnd
    \/ HopStreamFail

SpecHops == InitHops /\ [][NextHops]_vars

---------------------------------------------------------------------------
(* SpecUnion: the grouping of _build_chains on a list of matches, one match   *)
(* of the loop of lines 613-619 per step, then the groups of lines 621-624.   *)
(* best_matches is the list passed in; acc holds parent, the keys of          *)
(* session_map and the groups.                                                *)

\* Sessions the matches are between, and matches of a list.
MaxUnionNodes == 5
MaxUnionEdges == 4

\* The lists of matches _build_chains is called on: trace_single_file and
\* trace_multi_file keep one match per unordered pair of keys, and a matcher
\* never pairs a session with itself.
UnionInputs ==
    LET pairs == {e \in (1..MaxUnionNodes) \X (1..MaxUnionNodes) : e[1] # e[2]}
        lists == UNION { [1..n -> pairs] : n \in 1..MaxUnionEdges }
    IN { [k \in 1..Len(es) |-> [a |-> es[k][1], b |-> es[k][2],
                                conf |-> Hundredths(90), method |-> "http_header"]] :
           es \in { l \in lists :
                      \A i, j \in 1..Len(l) :
                          i # j => {l[i][1], l[i][2]} # {l[j][1], l[j][2]} } }

InitUnion ==
    /\ best_matches \in UnionInputs
    /\ sessions = <<>>
    /\ xstatus = "returned"
    /\ xcause = ""
    /\ nrows = 0
    /\ nstream = 0
    /\ delivered = <<>>
    /\ chain_counter = 0
    /\ tstatus = "idle"
    /\ mode = ""
    /\ counter_at_call = 0
    /\ all_matches = <<>>
    /\ chains = <<>>
    /\ result = <<>>
    /\ NoStream
    /\ NoAggregate

\* _build_chains(matches) is entered: parent and session_map are empty.
CallBuildChains ==
    /\ astatus = "idle"
    /\ afunc' = "_build_chains"
    /\ astatus' = "uniting"
    /\ acc' = [parent |-> EmptyParent, keys |-> <<>>, groups |-> <<>>]
    /\ arows' = 0
    /\ UNCHANGED <<extract_vars, trace_vars, stream_vars>>

\* One pass of the loop of lines 613-619 on the next match.
UnionStep ==
    /\ astatus = "uniting"
    /\ arows < Len(best_matches)
    /\ LET m == best_matches[arows + 1]
       IN acc' = [acc EXCEPT
                    !.parent = Union(@, m.a, m.b),
                    !.keys = FirstAppearances(@ \o <<m.a, m.b>>)]
    /\ arows' = arows + 1
    /\ UNCHANGED <<afunc, astatus, extract_vars, trace_vars, stream_vars>>

\* Lines 621-624: every key of session_map is appended to the group of its root.
BuildGroups ==
    /\ astatus = "uniting"
    /\ arows = Len(best_matches)
    /\ acc' = [acc EXCEPT !.groups = GroupsOf(acc.parent, acc.keys)]
    /\ astatus' = "grouped"
    /\ UNCHANGED <<afunc, arows, extract_vars, trace_vars, stream_vars>>

NextUnion ==
    \/ CallBuildChains
    \/ UnionStep
    \/ BuildGroups

SpecUnion == InitUnion /\ [][NextUnion]_vars

---------------------------------------------------------------------------
(* SpecLatency: trace_single_file on captures of a request that A sends to B  *)
(* and B forwards to C, whose rows carry timestamps in any order.             *)

\* Timestamps of the rows, in milliseconds.
LatencyTimes == {1, 2, 5, 10}

\* A row of stream n from src to dst at time t; a request row carries
\* X-Request-Id: r1.
LatencyRow(n, src, dst, t, is_request) ==
    [ stream |-> Digits(n),
      ip_src |-> src[1], ip_dst |-> dst[1],
      srcport |-> Digits(src[2]), dstport |-> Digits(dst[2]),
      time_epoch |-> Digits(t),
      len |-> Digits(100),
      payload |-> IF is_request THEN Payload(1) ELSE <<>>,
      is_http |-> is_request,
      http_xff |-> "",
      header_lines |-> IF is_request
                       THEN [NoHeaders EXCEPT !["x-request-id"] = "r1"]
                       ELSE NoHeaders ]

\* The captures, rows in file order: the request of stream 0, its response, the
\* request of stream 1 and, in the longer captures, its response.
LatencyCaptures ==
    LET a == <<"A", 1>>
        b == <<"B", 80>>
        b2 == <<"B", 2>>
        c == <<"C", 80>>
        three == { << LatencyRow(0, a, b, t[1], TRUE),
                      LatencyRow(0, b, a, t[2], FALSE),
                      LatencyRow(1, b2, c, t[3], TRUE) >> :
                   t \in LatencyTimes \X LatencyTimes \X LatencyTimes }
    IN three \cup { rows \o << LatencyRow(1, c, b2, t, FALSE) >> :
                      rows \in three, t \in LatencyTimes }

\* trace_single_file(filepath) on one of the captures.
TraceCapture(capture) ==
    /\ tstatus = "idle"
    /\ \E out \in trace_single_file(capture, TRUE, chain_counter) :
          Returned(out, "single")

NextLatency ==
    \/ \E capture \in LatencyCaptures : TraceCapture(capture)
    \/ TakeResult

SpecLatency == InitTrace /\ [][NextLatency]_vars

---------------------------------------------------------------------------
(* Claims about the aggregators *)

\* C16: no aggregator raises to its caller, whatever rows it is given and
\* wherever the field stream fails: analyze_tcp_sessions, analyze_security and
\* _extract_hop_packets all end by returning.
C16_AggregatorsNeverRaise ==
    astatus # "raised"

\* C17: in analyze_tcp_sessions the payload hex accumulated for a stream never
\* has more than 4000 characters.
C17_PayloadHexBounded ==
    (afunc = "analyze_tcp_sessions" /\ astatus = "reading") =>
        \A i \in 1..Len(acc) : acc[i].payload_hex <= 4000

---------------------------------------------------------------------------
(* Claims about the sizes and the fingerprint _extract_sessions keeps *)

\* The rows whose loop iteration ran to its end: all the rows delivered, but the
\* last one when it raised out of the loop body.
Completed ==
    IF xcause = "row_error" THEN SubSeq(delivered, 1, Len(delivered) - 1)
    ELSE delivered

\* C18: every session's packet_sizes has at most 20 entries and is the frame.len
\* values of the first min(20, packet_count) rows of its stream, in stream order.
C18_PacketSizesAreFirstTwenty ==
    \A i \in 1..Len(sessions) :
        LET s == sessions[i]
            rows == RowsOf(delivered, s.session_id)
            n == IF s.packet_count < 20 THEN s.packet_count ELSE 20
        IN /\ Len(s.packet_sizes) <= 20
           /\ Len(s.packet_sizes) = n
           /\ \A k \in 1..Len(s.packet_sizes) :
                  /\ ParseOk(rows[k].len)
                  /\ s.packet_sizes[k] = ParseInt(rows[k].len)

\* A tcp.payload text the fingerprint step accepts: hex of at least MIN_PAYLOAD
\* bytes.
Qualifies(payload) ==
    payload # <<>> /\ HexOk(payload) /\ Len(payload) >= MIN_PAYLOAD

\* The fingerprint of a payload: the digest of its first FINGERPRINT_SIZE bytes.
FingerprintOf(payload) ==
    Md5Hex16(SubSeq(payload, 1, IF Len(payload) < FINGERPRINT_SIZE
                                THEN Len(payload) ELSE FINGERPRINT_SIZE))

---------------------------------------------------------------------------
(* Claims about _extract_http_headers *)

\* Whether a row of the "http" pass yields a value for the header h: the
\* http.x_forwarded_for field for x-forwarded-for, a line of a decodable payload
\* for any header.
FoundIn(row, h) ==
    \/ h = "x-forwarded-for" /\ row.http_xff # ""
    \/ row.payload # <<>> /\ HexOk(row.payload) /\ row.header_lines[h] # ""

\* The value such a row yields: the line of the payload when there is one, the
\* field otherwise.
ValueIn(row, h) ==
    IF row.payload # <<>> /\ HexOk(row.payload) /\ row.header_lines[h] # ""
    THEN row.header_lines[h]
    ELSE row.http_xff

\* C21: after any rows of the "http" pass, the value a session holds for a
\* correlation header is the one of the last row of its stream in which the
\* header was found, and none when no row of its stream had it; rows of other
\* and of unknown streams do not change it.
C21_LastOccurrenceSurvives ==
    xstatus \in {"harvesting", "returned"} =>
        \A i \in 1..Len(sessions) : \A h \in CorrelationHeaders :
            LET rows == RowsOf(delivered, sessions[i].session_id)
                found == SelectSeq(rows, LAMBDA row : FoundIn(row, h))
            IN sessions[i].http_headers[h] =
                  IF found = <<>> THEN "" ELSE ValueIn(found[Len(found)], h)

\* Stream 0 had X-Request-Id r1 and then r2, and a row of the unknown stream 2
\* with r1 came last: session 0 holds r2.
C21_OverwrittenWitness ==
    /\ Len(delivered) = 3
    /\ delivered[1].stream = <<0>> /\ delivered[1].header_lines["x-request-id"] = "r1"
    /\ delivered[2].stream = <<0>> /\ delivered[2].header_lines["x-request-id"] = "r2"
    /\ delivered[3].stream = <<2>> /\ delivered[3].header_lines["x-request-id"] = "r1"
    /\ sessions[1].http_headers["x-request-id"] = "r2"

---------------------------------------------------------------------------
(* Claims about the pairwise matchers *)

\* C22: every pair the fingerprint matcher emits has the same non-empty
\* fingerprint on both sides, the first session starting no later than the
\* second and at most 2 * TIME_WINDOW before it, and not the same (src_ip,
\* dst_ip); its confidence is 0.90 when s1.dst_ip = s2.src_ip, else 0.85 when the
\* pair is port-preserved and same-VIP, else 0.75 when it is exactly one of the
\* two; a pair that is none of these is not emitted.
C22_FingerprintMatcherTable ==
    (tstatus = "matched" /\ mode = "fingerprint") =>
        \A k \in 1..Len(all_matches) :
            all_matches[k].method = "payload_fingerprint" =>
                LET s1 == sessions[all_matches[k].a]
                    s2 == sessions[all_matches[k].b]
                    direct == s1.dst_ip = s2.src_ip
                    ported == s1.src_port = s2.src_port /\ s1.src_ip # s2.src_ip
                    vip == s1.dst_ip = s2.dst_ip /\ s1.src_ip # s2.src_ip
                IN /\ s1.payload_fingerprint # <<>>
                   /\ s1.payload_fingerprint = s2.payload_fingerprint
                   /\ s1.start_time <= s2.start_time
                   /\ s2.start_time - s1.start_time <= 1000
                   /\ ~(s1.src_ip = s2.src_ip /\ s1.dst_ip = s2.dst_ip)
                   /\ direct \/ ported \/ vip
                   /\ all_matches[k].conf =
                         IF direct THEN Hundredths(90)
                         ELSE IF ported /\ vip THEN Hundredths(85)
                         ELSE Hundredths(75)

\* The fingerprint matcher emitted a pair at 0.75 whose earlier session is the
\* second of the list.
C22_SortedIndirectWitness ==
    /\ tstatus = "matched" /\ mode = "fingerprint"
    /\ \E k \in 1..Len(all_matches) :
          /\ all_matches[k].conf = Hundredths(75)
          /\ all_matches[k].a = 2

\* C23: every pair the timing+size matcher emits starts between 1 ms and
\* TIME_WINDOW apart, first session first, has different endpoints and a proxy
\* geometry, and over the first n = min(|sizes1|, |sizes2|, 10) frames, n >= 3,
\* more than 0.6 of the positions have sizes within max(100, 0.2 * the larger);
\* its confidence is 0.5 + 0.3 * that fraction, which is 0.80 for identical
\* sequences and always above 0.68 and at most 0.80.
C23_TimingMatcherTable ==
    (tstatus = "matched" /\ mode = "timing") =>
        \A k \in 1..Len(all_matches) :
            LET s1 == sessions[all_matches[k].a]
                s2 == sessions[all_matches[k].b]
                len1 == Len(s1.packet_sizes)
                len2 == Len(s2.packet_sizes)
                shorter == IF len1 < len2 THEN len1 ELSE len2
                n == IF shorter < 10 THEN shorter ELSE 10
                gap(i) == IF s1.packet_sizes[i] < s2.packet_sizes[i]
                          THEN s2.packet_sizes[i] - s1.packet_sizes[i]
                          ELSE s1.packet_sizes[i] - s2.packet_sizes[i]
                larger(i) == IF s1.packet_sizes[i] < s2.packet_sizes[i]
                             THEN s2.packet_sizes[i] ELSE s1.packet_sizes[i]
                close == {i \in 1..n : gap(i) <= 100 \/ 5 * gap(i) <= larger(i)}
                direct == s1.dst_ip = s2.src_ip
                ported == /\ s1.src_port = s2.src_port
                          /\ s1.src_ip # s2.src_ip
                          /\ (s1.dst_ip = s2.dst_ip \/ s1.dst_ip = s2.src_ip)
                conf == all_matches[k].conf
            IN /\ all_matches[k].method = "timing_size"
               /\ s2.start_time - s1.start_time >= 1
               /\ s2.start_time - s1.start_time <= 500
               /\ ~(s1.src_ip = s2.src_ip /\ s1.dst_ip = s2.dst_ip)
               /\ direct \/ ported
               /\ n >= 3
               /\ 10 * Cardinality(close) > 6 * n
               /\ 10 * n * conf = ConfOne * (5 * n + 3 * Cardinality(close))
               /\ (SubSeq(s1.packet_sizes, 1, n) = SubSeq(s2.packet_sizes, 1, n))
                      => conf = Hundredths(80)
               /\ conf > Hundredths(68)
               /\ conf <= Hundredths(80)

\* The timing+size matcher emitted a pair on five close positions of eight, at
\* 0.6875.
C23_LowestConfidenceWitness ==
    /\ tstatus = "matched" /\ mode = "timing"
    /\ Len(all_matches) = 1
    /\ 10000 * all_matches[1].conf = 6875 * ConfOne
    /\ Len(sessions[2].packet_sizes) = 8

---------------------------------------------------------------------------
(* Claims about the packets of a hop *)

\* The rows of the capture that belong to the hop being listed.
RowsOfHop ==
    SelectSeq(delivered,
              LAMBDA row : (row.ip_src = acc.src_ip) = (acc.direction = "request"))

\* C24: when the rows of a capture all have numeric fields and the listing of a
\* hop read them to the end, the list holds exactly the rows of the hop's
\* direction, in order, numbered 1, 2, ..., each with relative_time_ms equal to
\* 1000 times its time_epoch less the time_epoch of the first of them.
C24_HopPacketsRelativeToFirst ==
    ( /\ afunc = "_extract_hop_packets" /\ astatus = "returned"
      /\ acc.ended = "exhausted"
      /\ \A k \in 1..Len(delivered) :
            ParseOk(delivered[k].time_epoch) /\ ParseOk(delivered[k].len) )
    => /\ Len(acc.packets) = Len(RowsOfHop)
       /\ \A k \in 1..Len(acc.packets) :
             /\ acc.packets[k].seq = k
             /\ acc.packets[k].time_epoch = ParseFloat(RowsOfHop[k].time_epoch)
             /\ acc.packets[k].relative_time_ms =
                   (ParseFloat(RowsOfHop[k].time_epoch)
                        - ParseFloat(RowsOfHop[1].time_epoch)) * 1000

\* C29: when the listing of a hop was not cut by a failure of the field stream,
\* it has as many packets as extraction counted for that direction of the
\* session.
C29_HopListingMatchesCount ==
    ( /\ afunc = "_extract_hop_packets" /\ astatus = "returned"
      /\ acc.ended # "stream_failure" )
    => Len(acc.packets) = IF acc.direction = "request"
                          THEN sessions[1].forward_packets
                          ELSE sessions[1].backward_packets

---------------------------------------------------------------------------
(* Claims about missing hops *)

\* C30: every session _extract_sessions returns has at least one forward packet,
\* its first row being forward by construction, so its request hop is not
\* marked missing.
C30_RequestHopNeverMissing ==
    xstatus = "returned" =>
        \A i \in 1..Len(sessions) :
            /\ sessions[i].forward_packets >= 1
            /\ ~forward_hop(sessions[i]).missing

---------------------------------------------------------------------------
(* Claims about the chains of one result *)

\* The sessions of a chain, as the (file, session_id) pairs of its hops.
HopSessions(chain) ==
    {<<chain.hops[h].file, chain.hops[h].session_id>> : h \in 1..Len(chain.hops)}

\* The members of a chain, as a set of sessions of the trace.
MemberSet(chain) ==
    {chain.members[k] : k \in 1..Len(chain.members)}

\* C25: in the chains of one trace result no session is a member of two chains
\* and none is twice a member of one: the hops of two chains never name the same
\* (file, session_id).
C25_ChainsAreDisjoint ==
    tstatus = "returned" =>
        /\ \A c \in 1..Len(chains) :
              /\ Cardinality(MemberSet(chains[c])) = Len(chains[c].members)
              /\ HopSessions(chains[c]) =
                    {SessionKey(sessions[m]) : m \in MemberSet(chains[c])}
        /\ \A c1, c2 \in 1..Len(chains) :
              c1 # c2 =>
                 /\ MemberSet(chains[c1]) \cap MemberSet(chains[c2]) = {}
                 /\ HopSessions(chains[c1]) \cap HopSessions(chains[c2]) = {}

\* A trace returned two chains cut out of one union-find component.
C25_SplitComponentWitness ==
    /\ tstatus = "returned"
    /\ Len(chains) = 2
    /\ \E g \in 1..Len(Groups(best_matches)) :
          LET group == {Groups(best_matches)[g][k] :
                            k \in 1..Len(Groups(best_matches)[g])}
          IN MemberSet(chains[1]) \cup MemberSet(chains[2]) \subseteq group

\* The sessions of the trace that are a member of no chain.
InNoChain ==
    {i \in 1..Len(sessions) : \A c \in 1..Len(chains) : i \notin MemberSet(chains[c])}

\* The sessions the unmatched list of the result names.
ListedUnmatched ==
    {i \in 1..Len(sessions) :
        \E u \in 1..Len(result.unmatched_sessions) :
            /\ result.unmatched_sessions[u].session_id = sessions[i].session_id
            /\ mode = "multi" =>
                  result.unmatched_sessions[u].file = sessions[i].file_source}

\* The sessions that a match of best_matches united with another session.
Unioned ==
    UNION { {Groups(best_matches)[g][k] : k \in 1..Len(Groups(best_matches)[g])} :
                g \in 1..Len(Groups(best_matches)) }

\* C26: in every result of a trace that extracted a session, matched_sessions
\* plus the number of sessions in no chain is total_sessions; the unmatched list
\* names sessions in no chain only, all of them while they are at most
\* UNMATCHED_LIMIT and UNMATCHED_LIMIT of them otherwise; with one session
\* matched_chains is 0 and the session is listed.
C26_MatchedAndUnmatchedPartition ==
    (tstatus = "returned" /\ sessions # <<>>) =>
        /\ result.stats.total_sessions = Len(sessions)
        /\ result.stats.matched_chains = Len(chains)
        /\ result.stats.matched_sessions + Cardinality(InNoChain)
              = result.stats.total_sessions
        /\ ListedUnmatched \subseteq InNoChain
        /\ Len(result.unmatched_sessions) = Min(Cardinality(InNoChain), UNMATCHED_LIMIT)
        /\ Cardinality(InNoChain) <= UNMATCHED_LIMIT => ListedUnmatched = InNoChain
        /\ Len(sessions) = 1 =>
              /\ result.stats.matched_chains = 0
              /\ ListedUnmatched = {1}

\* A session was united with others by a match, the split left it in no chain,
\* and the result lists it as unmatched beside a chain.
C26_DroppedBySplitWitness ==
    /\ tstatus = "returned"
    /\ Len(chains) >= 1
    /\ \E i \in Unioned : i \in InNoChain /\ i \in ListedUnmatched

---------------------------------------------------------------------------
(* Claims about the union-find of _build_chains *)

\* The keys one match edge away from a key of S, with S.
Neighbours(edges, S) ==
    S \cup {edges[k].b : k \in {i \in 1..Len(edges) : edges[i].a \in S}}
      \cup {edges[k].a : k \in {i \in 1..Len(edges) : edges[i].b \in S}}

\* The keys a path of match edges connects to a key of S.
RECURSIVE Reach(_, _)
Reach(edges, S) ==
    IF Neighbours(edges, S) = S THEN S ELSE Reach(edges, Neighbours(edges, S))

\* C27: the groups _build_chains computes are the connected components of the
\* graph of the matches: every key of a match is in exactly one group, once, and
\* two keys are in the same group exactly when a path of matches connects them.
C27_GroupsAreComponents ==
    (afunc = "_build_chains" /\ astatus = "grouped") =>
        LET groups == acc.groups
            keys == UNION {{best_matches[k].a, best_matches[k].b} :
                               k \in 1..Len(best_matches)}
            GroupSet(g) == {groups[g][k] : k \in 1..Len(groups[g])}
        IN /\ \A g \in 1..Len(groups) :
                 /\ groups[g] # <<>>
                 /\ Cardinality(GroupSet(g)) = Len(groups[g])
                 /\ \A x \in GroupSet(g) : GroupSet(g) = Reach(best_matches, {x})
           /\ \A x \in keys : \E g \in 1..Len(groups) : x \in GroupSet(g)
           /\ \A g1, g2 \in 1..Len(groups) :
                 g1 # g2 => GroupSet(g1) \cap GroupSet(g2) = {}

\* The third match joined two groups of two keys through keys that were roots of
\* neither, and the fourth hung a fifth key on: one group of five.
C27_MergedGroupsWitness ==
    /\ afunc = "_build_chains" /\ astatus = "grouped"
    /\ Len(best_matches) = 4
    /\ {best_matches[1].a, best_matches[1].b}
          \cap {best_matches[2].a, best_matches[2].b} = {}
    /\ best_matches[3].a = best_matches[1].a
    /\ best_matches[3].b = best_matches[2].a
    /\ Len(acc.groups) = 1
    /\ Len(acc.groups[1]) = 5

---------------------------------------------------------------------------
(* Claims about the latency of a chain *)

\* C28: the latency of every chain is the backward_end of its last member, or
\* the end_time when that is 0, less the forward_start of its first member, or
\* the start_time when that is 0, the members taken in start_time order; and it
\* is never negative.
C28_LatencyNeverNegative ==
    tstatus = "returned" =>
        \A c \in 1..Len(chains) :
            LET first_session == sessions[chains[c].members[1]]
                last_session == sessions[chains[c].members[Len(chains[c].members)]]
                first_time == IF first_session.forward_start # 0
                              THEN first_session.forward_start
                              ELSE first_session.start_time
                last_time == IF last_session.backward_end # 0
                             THEN last_session.backward_end
                             ELSE last_session.end_time
            IN /\ \A k \in 1..(Len(chains[c].members) - 1) :
                     sessions[chains[c].members[k]].start_time
                        <= sessions[chains[c].members[k + 1]].start_time
               /\ chains[c].latency_ms = last_time - first_time
               /\ chains[c].latency_ms >= 0

=============================================================================
